---------------------------- MODULE Spec2Model ----------------------------
(***************************************************************************)
(* A model of the mos6510rs CPU core (src/src/lib.rs and its companions).  *)
(*                                                                         *)
(* The CPU object is modelled by the variables registers, status_flags,    *)
(* memory and cycles (the fields of struct CPU); status records whether a  *)
(* panic!() has been raised; overflow_checks records whether the build     *)
(* panics on integer overflow (cargo's dev profile) or wraps (release).    *)
(* The handlers of CPU::step are pure operators over a bundle `c` of those *)
(* fields, threaded through the helper calls in program order, so that a   *)
(* panic in the middle of a step keeps the partial updates made before it. *)
(***************************************************************************)
EXTENDS Integers, Sequences, FiniteSets, TLC

VARIABLES
    registers,        \* struct Registers
    status_flags,     \* struct StatusFlags
    memory,           \* the Memory collaborator: address -> byte, 0 where absent
    cycles,           \* CPU::cycles
    status,           \* "running", or "panic" once a panic!() was raised
    overflow_checks,  \* TRUE: integer overflow panics; FALSE: it wraps
    accesses,         \* the memory accesses of the last operation, in order
    ret,              \* value returned by the last operation (step, pop)
    start,            \* ghost: the bundle at Init
    pre,              \* ghost: the bundle before the last operation
    ops,              \* ghost: the operations performed so far, in order
    steps_left        \* the number of step() calls the embedder still makes

vars == <<registers, status_flags, memory, cycles, status, overflow_checks,
          accesses, ret, start, pre, ops, steps_left>>

-----------------------------------------------------------------------------
(* Bounds of the model.                                                    *)

\* the number of step() calls of a run that is not a fixed program
MaxSteps == 2
\* the number of push() calls (and of pop() calls) explored by the stack specs
MaxPush == 3
\* the number of reset() and reset_to() calls of a run
MaxResets == 2
\* the number of step() calls of a run of the countdown loop
MaxLoopSteps == 12

-----------------------------------------------------------------------------
(* Fixed-width integers and bit operations.                                *)

Byte == 0..255
Word == 0..65535

Pow2(k) == 2^k

\* bit k of a non-negative integer v
Bit(v, k) == (v \div Pow2(k)) % 2

RECURSIVE BitAnd(_, _)
BitAnd(a, b) ==
    IF a = 0 \/ b = 0 THEN 0
    ELSE (a % 2) * (b % 2) + 2 * BitAnd(a \div 2, b \div 2)

RECURSIVE BitOr(_, _)
BitOr(a, b) ==
    IF a = 0 THEN b
    ELSE IF b = 0 THEN a
    ELSE (IF a % 2 = 1 \/ b % 2 = 1 THEN 1 ELSE 0) + 2 * BitOr(a \div 2, b \div 2)

RECURSIVE BitXor(_, _)
BitXor(a, b) ==
    IF a = 0 THEN b
    ELSE IF b = 0 THEN a
    ELSE ((a + b) % 2) + 2 * BitXor(a \div 2, b \div 2)

\* `b as u16` / `b as u64` of a bool
BoolInt(b) == IF b THEN 1 ELSE 0

-----------------------------------------------------------------------------
(* memory.rs: SimpleMemory, a zero-initialised array of 65536 bytes.  The  *)
(* model keeps only the non-zero cells, so equal memories are equal values.*)

SimpleMemoryNew == [addr \in {} |-> 0]

MemRead(m, address) == IF address \in DOMAIN m THEN m[address] ELSE 0

MemWrite(m, address, value) ==
    IF value = 0
    THEN [addr \in DOMAIN m \ {address} |-> m[addr]]
    ELSE [addr \in DOMAIN m \cup {address} |->
             IF addr = address THEN value ELSE m[addr]]

-----------------------------------------------------------------------------
(* registers.rs and status_flags.rs                                        *)

RegistersNew ==
    [program_counter |-> 0, stack_pointer |-> 255, accumulator |-> 0,
     x |-> 0, y |-> 0]

StatusFlagsNew ==
    [carry |-> FALSE, zero |-> FALSE, interrupt |-> FALSE, decimal |-> FALSE,
     brk |-> FALSE, ignored |-> FALSE, overflow |-> FALSE, negative |-> FALSE]

\* a packing that leaves the break bit out of the byte
ToByteWithoutBreak(f) ==
    BoolInt(f.carry) + 2 * BoolInt(f.zero) + 4 * BoolInt(f.interrupt)
        + 8 * BoolInt(f.decimal) + 32 * BoolInt(f.ignored)
        + 64 * BoolInt(f.overflow) + 128 * BoolInt(f.negative)

AllStatusFlags ==
    [carry : BOOLEAN, zero : BOOLEAN, interrupt : BOOLEAN, decimal : BOOLEAN,
     brk : BOOLEAN, ignored : BOOLEAN, overflow : BOOLEAN, negative : BOOLEAN]

to_byte(f) ==
    BitOr(IF f.carry     THEN 1   ELSE 0,
    BitOr(IF f.zero      THEN 2   ELSE 0,
    BitOr(IF f.interrupt THEN 4   ELSE 0,
    BitOr(IF f.decimal   THEN 8   ELSE 0,
    BitOr(IF f.brk       THEN 16  ELSE 0,
    BitOr(IF f.ignored   THEN 32  ELSE 0,
    BitOr(IF f.overflow  THEN 64  ELSE 0,
          IF f.negative  THEN 128 ELSE 0)))))))

from_byte(byte) ==
    [carry     |-> BitAnd(byte, 1) # 0,
     zero      |-> BitAnd(byte, 2) # 0,
     interrupt |-> BitAnd(byte, 4) # 0,
     decimal   |-> BitAnd(byte, 8) # 0,
     brk       |-> BitAnd(byte, 16) # 0,
     ignored   |-> BitAnd(byte, 32) # 0,
     overflow  |-> BitAnd(byte, 64) # 0,
     negative  |-> BitAnd(byte, 128) # 0]

-----------------------------------------------------------------------------
(* The CPU bundle and Rust's integer arithmetic.                           *)

\* struct CPU (lib.rs), together with the panic status, the build profile
\* and the memory accesses the current call has made so far, in order
Bundle(r, f, m, k, st, oc) ==
    [registers |-> r, status_flags |-> f, memory |-> m, cycles |-> k,
     status |-> st, overflow_checks |-> oc, accesses |-> <<>>]

\* `let x = v; K(x)`: v is evaluated, once, before K runs
Bind(v, K(_)) == CHOOSE r \in {K(x) : x \in {v}} : TRUE

\* a value returned by a &mut self method, with the CPU it leaves behind
R(c, v) == [c |-> c, v |-> v]

Running(c) == c.status = "running"

\* an update made by a statement: nothing executes after a panic
Set(c, new) == IF Running(c) THEN new ELSE c

\* a panic!() that lets the step go on
PanicIgnored(c) == c

\* panic!(): the step never returns
Panic(c) == Set(c, [c EXCEPT !.status = "panic"])

\* `a + b` on u16: "attempt to add with overflow" panics when overflow checks
\* are compiled in, and wraps otherwise
AddU16(c, a, b) ==
    IF a + b <= 65535 THEN R(c, a + b)
    ELSE IF c.overflow_checks THEN R(Panic(c), 0)
    ELSE R(c, (a + b) % 65536)

\* `a - b` on u16
SubU16(c, a, b) ==
    IF a - b >= 0 THEN R(c, a - b)
    ELSE IF c.overflow_checks THEN R(Panic(c), 0)
    ELSE R(c, (a - b) % 65536)

\* `self.cycles += k` on u64 (never overflows within the model)
AddCycles(c, k) == Set(c, [c EXCEPT !.cycles = @ + k])

\* a decrement of the cycle counter that is never made
SubCyclesNever(c, k) == c

\* `self.cycles -= 1` on u64
SubCycles(c, k) ==
    IF c.cycles - k >= 0 THEN Set(c, [c EXCEPT !.cycles = @ - k])
    ELSE IF c.overflow_checks THEN Panic(c)
    ELSE Set(c, [c EXCEPT !.cycles = (@ - k) % Pow2(64)])

-----------------------------------------------------------------------------
(* lib.rs: memory access helpers                                           *)

\* a call of Memory::read or Memory::write reaches the memory
Accessed(c, kind, address) ==
    Set(c, [c EXCEPT !.accesses = Append(@, <<kind, address>>)])

read_byte(c, address) ==
    R(Accessed(c, "read", address), MemRead(c.memory, address))

write_memory(c, address, value) ==
    Bind(Accessed(c, "write", address), LAMBDA c1 :
    Set(c1, [c1 EXCEPT !.memory = MemWrite(@, address, value)]))

increment_pc(c) ==
    Bind(AddU16(c, c.registers.program_counter, 1), LAMBDA s :
    Set(s.c, [s.c EXCEPT !.registers.program_counter = BitAnd(s.v, 65535)]))

read_byte_and_increment_pc(c) ==
    Bind(read_byte(c, c.registers.program_counter), LAMBDA mem :
    R(increment_pc(mem.c), mem.v))

\* the word read of CPU::reset, low byte first
read_word(c, address) ==
    Bind(read_byte(c, address), LAMBDA lo :
    Bind(AddU16(lo.c, address, 1), LAMBDA a1 :
    Bind(read_byte(a1.c, a1.v), LAMBDA hi :
    R(hi.c, BitOr(lo.v, hi.v * 256)))))

-----------------------------------------------------------------------------
(* lib.rs: the stack                                                       *)

\* a push that forgets the stack page
PushIntoPageZero(c, value) ==
    Bind(write_memory(c, c.registers.stack_pointer, value), LAMBDA c1 :
    IF c1.registers.stack_pointer > 0
    THEN Set(c1, [c1 EXCEPT !.registers.stack_pointer = @ - 1])
    ELSE c1)

push(c, value) ==
    Bind(write_memory(c, 256 + c.registers.stack_pointer, value), LAMBDA c1 :
    IF c1.registers.stack_pointer > 0
    THEN Set(c1, [c1 EXCEPT !.registers.stack_pointer = @ - 1])
    ELSE c1)

pop(c) ==
    Bind(IF c.registers.stack_pointer < 255
         THEN Set(c, [c EXCEPT !.registers.stack_pointer = @ + 1])
         ELSE c, LAMBDA c1 :
    read_byte(c1, 256 + c1.registers.stack_pointer))

-----------------------------------------------------------------------------
(* lib.rs: the addressing-mode resolvers                                   *)

\* the two operand bytes after the opcode, low byte first
FetchWord(c) ==
    Bind(read_byte_and_increment_pc(c), LAMBDA lo :
    Bind(read_byte_and_increment_pc(lo.c), LAMBDA hi :
    R(hi.c, BitOr(lo.v, hi.v * 256))))

\* a page test that never finds a crossing
PageNeverCrossed(address2, address) == FALSE

\* `if (address2 & 0xff00) != (address & 0xff00)`
PageCrossed(address2, address) ==
    BitAnd(address2, 65280) # BitAnd(address, 65280)

\* base + index on u16, masked with 0xffff; +1 cycle on a page crossing
\* when penalty = 1, -1 cycle when penalty = -1, none when penalty = 0
Indexed(c, base, index, penalty) ==
    Bind(AddU16(c, base, index), LAMBDA s :
    Bind(BitAnd(s.v, 65535), LAMBDA address2 :
    R(IF penalty # 0 /\ PageCrossed(address2, base)
      THEN (IF penalty > 0 THEN AddCycles(s.c, 1) ELSE SubCycles(s.c, 1))
      ELSE s.c,
      address2)))

\* an indexed zero-page address that leaves page zero
ZeroPageIndexedUnwrapped(address, index) == address + index

\* `address += index; ... address & 0xff`
ZeroPageIndexed(address, index) == BitAnd(address + index, 255)

\* the little-endian word in page zero at zp and (zp + 1) & 0xff
ZeroPageWord(c, zp) ==
    Bind(read_byte(c, BitAnd(zp, 255)), LAMBDA lo :
    Bind(read_byte(lo.c, BitAnd(zp + 1, 255)), LAMBDA hi :
    R(hi.c, BitOr(lo.v, hi.v * 256))))

\* the read path
get_address(c, mode) ==
    CASE mode = "Implied" -> R(AddCycles(c, 2), 0)
      [] mode = "Immediate" -> read_byte_and_increment_pc(AddCycles(c, 2))
      [] mode = "Absolute" ->
            Bind(FetchWord(AddCycles(c, 4)), LAMBDA w :
            read_byte(w.c, w.v))
      [] mode = "AbsoluteX" ->
            Bind(FetchWord(AddCycles(c, 4)), LAMBDA w :
            Bind(Indexed(w.c, w.v, w.c.registers.x, 1), LAMBDA e :
            read_byte(e.c, e.v)))
      [] mode = "AbsoluteY" ->
            Bind(FetchWord(AddCycles(c, 4)), LAMBDA w :
            Bind(Indexed(w.c, w.v, w.c.registers.y, 1), LAMBDA e :
            read_byte(e.c, e.v)))
      [] mode = "ZeroPage" ->
            Bind(read_byte_and_increment_pc(AddCycles(c, 3)), LAMBDA b :
            read_byte(b.c, b.v))
      [] mode = "ZeroPageX" ->
            Bind(read_byte_and_increment_pc(AddCycles(c, 4)), LAMBDA b :
            read_byte(b.c, ZeroPageIndexed(b.v, b.c.registers.x)))
      [] mode = "ZeroPageY" ->
            Bind(read_byte_and_increment_pc(AddCycles(c, 4)), LAMBDA b :
            read_byte(b.c, ZeroPageIndexed(b.v, b.c.registers.y)))
      [] mode = "IndirectY" ->
            Bind(read_byte_and_increment_pc(AddCycles(c, 5)), LAMBDA b :
            Bind(ZeroPageWord(b.c, b.v), LAMBDA address2 :
            Bind(Indexed(address2.c, address2.v, address2.c.registers.y, 1), LAMBDA e :
            read_byte(e.c, e.v))))
      [] mode = "XIndirect" ->
            Bind(read_byte_and_increment_pc(AddCycles(c, 6)), LAMBDA b :
            Bind(ZeroPageWord(b.c, b.v + b.c.registers.x), LAMBDA address2 :
            read_byte(address2.c, address2.v)))
      [] mode = "Accumulator" ->
            Bind(AddCycles(c, 2), LAMBDA c1 : R(c1, c1.registers.accumulator))
      [] OTHER -> R(Panic(c), 0)

\* the operand word re-read from program_counter - 2 and program_counter - 1
RereadWord(c) ==
    Bind(SubU16(c, c.registers.program_counter, 2), LAMBDA p2 :
    Bind(read_byte(p2.c, p2.v), LAMBDA lo :
    Bind(SubU16(lo.c, lo.c.registers.program_counter, 1), LAMBDA p1 :
    Bind(read_byte(p1.c, p1.v), LAMBDA hi :
    R(hi.c, BitOr(lo.v, hi.v * 256))))))

\* a re-read that takes the byte after the operand byte
RereadByteAfterOperand(c) == read_byte(c, c.registers.program_counter)

\* the operand byte re-read from program_counter - 1
RereadByte(c) ==
    Bind(SubU16(c, c.registers.program_counter, 1), LAMBDA p1 :
    read_byte(p1.c, p1.v))

\* the write-back path of a read-modify-write instruction
set_address(c, mode, value) ==
    CASE mode = "Absolute" ->
            Bind(RereadWord(AddCycles(c, 2)), LAMBDA w :
            write_memory(w.c, w.v, value))
      [] mode = "AbsoluteX" ->
            Bind(RereadWord(AddCycles(c, 3)), LAMBDA w :
            Bind(Indexed(w.c, w.v, w.c.registers.x, -1), LAMBDA e :
            write_memory(e.c, e.v, value)))
      [] mode = "ZeroPage" ->
            Bind(RereadByte(AddCycles(c, 2)), LAMBDA b :
            write_memory(b.c, b.v, value))
      [] mode = "ZeroPageX" ->
            Bind(RereadByte(AddCycles(c, 2)), LAMBDA b :
            write_memory(b.c, ZeroPageIndexed(b.v, b.c.registers.x), value))
      [] mode = "Accumulator" ->
            Set(c, [c EXCEPT !.registers.accumulator = value])
      [] OTHER -> Panic(c)

\* the store path
put_address(c, mode, value) ==
    CASE mode = "Absolute" ->
            Bind(FetchWord(AddCycles(c, 4)), LAMBDA w :
            write_memory(w.c, w.v, value))
      [] mode = "AbsoluteX" ->
            Bind(FetchWord(AddCycles(c, 4)), LAMBDA w :
            Bind(Indexed(w.c, w.v, w.c.registers.x, 0), LAMBDA e :
            write_memory(e.c, e.v, value)))
      [] mode = "AbsoluteY" ->
            Bind(FetchWord(AddCycles(c, 4)), LAMBDA w :
            Bind(Indexed(w.c, w.v, w.c.registers.y, 1), LAMBDA e :
            write_memory(e.c, e.v, value)))
      [] mode = "ZeroPage" ->
            Bind(read_byte_and_increment_pc(AddCycles(c, 3)), LAMBDA b :
            write_memory(b.c, b.v, value))
      [] mode = "ZeroPageX" ->
            Bind(read_byte_and_increment_pc(AddCycles(c, 4)), LAMBDA b :
            write_memory(b.c, ZeroPageIndexed(b.v, b.c.registers.x), value))
      [] mode = "ZeroPageY" ->
            Bind(read_byte_and_increment_pc(AddCycles(c, 4)), LAMBDA b :
            write_memory(b.c, ZeroPageIndexed(b.v, b.c.registers.y), value))
      [] mode = "XIndirect" ->
            Bind(read_byte_and_increment_pc(AddCycles(c, 6)), LAMBDA b :
            Bind(ZeroPageWord(b.c, b.v + b.c.registers.x), LAMBDA address2 :
            write_memory(address2.c, address2.v, value)))
      [] mode = "IndirectY" ->
            Bind(read_byte_and_increment_pc(AddCycles(c, 5)), LAMBDA b :
            Bind(ZeroPageWord(b.c, b.v), LAMBDA address2 :
            Bind(Indexed(address2.c, address2.v, address2.c.registers.y, 0), LAMBDA e :
            write_memory(e.c, e.v, value))))
      [] mode = "Accumulator" ->
            Set(c, [c EXCEPT !.registers.accumulator = value])
      [] OTHER -> Panic(c)

\* a branch that reads its offset byte as unsigned
BranchDistanceUnsigned(b) == b

\* a branch that never charges the page-crossing cycle
BranchWithoutPenalty(c, condition) ==
    Bind(get_address(c, "Immediate"), LAMBDA b :
    IF condition
    THEN Set(b.c, [b.c EXCEPT !.registers.program_counter =
                      (@ + b.v + (IF b.v >= 128 THEN 65280 ELSE 0)) % 65536])
    ELSE b.c)

\* the signed distance of a branch offset byte
BranchDistance(b) ==
    IF BitAnd(b, 128) # 0 THEN 0 - (BitAnd(255 - b, 255) + 1) ELSE b

\* the branch target, as `tmp` is computed from program_counter and dist
BranchTarget(pc, dist) ==
    BitAnd(IF pc + dist < 0 THEN pc + dist + 65536 ELSE pc + dist, 65535)

\* a relative branch: the offset byte is read through the Immediate read path
branch(c, condition) ==
    Bind(get_address(c, "Immediate"), LAMBDA b :
    Bind(BranchTarget(b.c.registers.program_counter, BranchDistance(b.v)), LAMBDA tmp :
    IF condition
    THEN Bind(AddCycles(b.c, BoolInt(BitAnd(b.c.registers.program_counter, 256)
                                     # BitAnd(tmp, 256))), LAMBDA c1 :
         Set(c1, [c1 EXCEPT !.registers.program_counter = tmp]))
    ELSE b.c))

-----------------------------------------------------------------------------
(* lib.rs: the arms of `match instruction` in CPU::step                    *)

\* `flags.zero = z; flags.negative = n`
ZeroNegative(c, z, n) ==
    Set(c, [c EXCEPT !.status_flags.zero = z, !.status_flags.negative = n])

\* `flags.zero = v == 0; flags.negative = v & 0x80 != 0`
ZeroNegativeOf(c, v) == ZeroNegative(c, v = 0, BitAnd(v, 128) # 0)

Carry(c, v) == Set(c, [c EXCEPT !.status_flags.carry = v])

Overflow(c, v) == Set(c, [c EXCEPT !.status_flags.overflow = v])

AddWithCarry(c, mode) ==
    Bind(c.registers.accumulator, LAMBDA a :
    Bind(get_address(c, mode), LAMBDA m :
    Bind(a + m.v + BoolInt(m.c.status_flags.carry), LAMBDA tmp :
    Bind(Carry(m.c, BitAnd(tmp, 256) # 0), LAMBDA c1 :
    Bind(ZeroNegativeOf(c1, c1.registers.accumulator), LAMBDA c2 :
    Overflow(c2, BitXor(BoolInt(c2.status_flags.carry),
                        BoolInt(c2.status_flags.negative)) # 0))))))

AndWithAccumulator(c, mode) ==
    Bind(get_address(c, mode), LAMBDA m :
    Bind(Set(m.c, [m.c EXCEPT !.registers.accumulator = BitAnd(@, m.v)]), LAMBDA c1 :
    ZeroNegativeOf(c1, c1.registers.accumulator)))

ArithmeticShiftLeft(c, mode) ==
    Bind(get_address(c, mode), LAMBDA m :
    Bind(m.v * 2, LAMBDA tmp :
    Bind(set_address(m.c, mode, tmp % 256), LAMBDA c1 :
    Carry(ZeroNegativeOf(c1, tmp), BitAnd(tmp, 256) # 0))))

BitSet(c, mode) ==
    Bind(get_address(c, mode), LAMBDA m :
    Overflow(ZeroNegative(m.c, BitAnd(m.c.registers.accumulator, m.v) = 0,
                          BitAnd(m.v, 128) # 0),
             BitAnd(m.v, 64) # 0))

\* a BRK that also sets the break flag
BreakSetsBreakFlag(c) ==
    Set(c, [c EXCEPT !.registers.program_counter = 0, !.status_flags.brk = TRUE])

Break(c) == Set(c, [c EXCEPT !.registers.program_counter = 0])

\* CLC, CLD, CLI, CLV, SEC, SED, SEI
SetFlag(c, flag, v) ==
    Bind(AddCycles(c, 2), LAMBDA c1 :
    Set(c1, [c1 EXCEPT !.status_flags[flag] = v]))

\* `reg as i16 - 1`, plus 256 when negative
MinusOne(v) == IF v - 1 < 0 THEN v - 1 + 256 ELSE v - 1

\* `reg as i16 + 1`, minus 256 when above 255
PlusOne(v) == IF v + 1 > 255 THEN v + 1 - 256 ELSE v + 1

\* `a as i16 - b as i16`, plus 256 when negative
Difference(a, b) == IF a - b < 0 THEN a - b + 256 ELSE a - b

\* CMP, CPX, CPY against register reg
Compare(c, mode, reg) ==
    Bind(get_address(c, mode), LAMBDA m :
    Carry(ZeroNegativeOf(m.c, Difference(m.c.registers[reg], m.v)),
          m.c.registers[reg] >= m.v))

Decrement(c, mode) ==
    Bind(get_address(c, mode), LAMBDA m :
    Bind(MinusOne(m.v), LAMBDA tmp :
    ZeroNegativeOf(set_address(m.c, mode, tmp % 256), tmp)))

\* a DEX / DEY that leaves the flags as they were
DecrementRegisterKeepsFlags(c, reg) ==
    Bind(AddCycles(c, 2), LAMBDA c1 :
    Set(c1, [c1 EXCEPT !.registers[reg] = MinusOne(@) % 256]))

\* DEX, DEY on register reg
DecrementRegister(c, reg) ==
    Bind(AddCycles(c, 2), LAMBDA c1 :
    Bind(MinusOne(c1.registers[reg]), LAMBDA tmp :
    ZeroNegativeOf(Set(c1, [c1 EXCEPT !.registers[reg] = tmp % 256]), tmp)))

ExclusiveOrWithAccumulator(c, mode) ==
    Bind(get_address(c, mode), LAMBDA m :
    Bind(Set(m.c, [m.c EXCEPT !.registers.accumulator = BitXor(@, m.v)]), LAMBDA c1 :
    ZeroNegativeOf(c1, c1.registers.accumulator)))

Increment(c, mode) ==
    Bind(get_address(c, mode), LAMBDA m :
    Bind(PlusOne(m.v), LAMBDA tmp :
    ZeroNegativeOf(set_address(m.c, mode, tmp % 256), tmp)))

\* INX, INY on register reg
IncrementRegister(c, reg) ==
    Bind(AddCycles(c, 2), LAMBDA c1 :
    Bind(BitAnd(PlusOne(c1.registers[reg]), 255), LAMBDA tmp :
    ZeroNegativeOf(Set(c1, [c1 EXCEPT !.registers[reg] = tmp % 256]), tmp)))

\* the Mode::Indirect arm of JMP
JumpIndirect(c, tmp) ==
    Bind(read_byte(c, tmp), LAMBDA lo :
    Bind(Set(lo.c, [lo.c EXCEPT !.registers.program_counter = lo.v]), LAMBDA c1 :
    Bind(AddU16(c1, tmp, 1), LAMBDA s :
    Bind(read_byte(s.c, BitAnd(s.v, 255)), LAMBDA hi :
    AddCycles(Set(hi.c, [hi.c EXCEPT !.registers.program_counter =
                            BitOr(@, hi.v * 256)]),
              2)))))

Jump(c, mode) ==
    Bind(FetchWord(AddCycles(c, 3)), LAMBDA w :
    CASE mode = "Absolute" ->
            Set(w.c, [w.c EXCEPT !.registers.program_counter = w.v])
      [] mode = "Indirect" -> JumpIndirect(w.c, w.v)
      [] OTHER -> Panic(w.c))

JumpSubroutine(c) ==
    Bind(AddCycles(c, 6), LAMBDA c1 :
    Bind(AddU16(c1, c1.registers.program_counter, 1), LAMBDA s1 :
    Bind(push(s1.c, BitAnd(s1.v, 65535) \div 256), LAMBDA c2 :
    Bind(AddU16(c2, c2.registers.program_counter, 1), LAMBDA s2 :
    Bind(FetchWord(push(s2.c, BitAnd(s2.v, 255))), LAMBDA w :
    Set(w.c, [w.c EXCEPT !.registers.program_counter = w.v]))))))

\* LDA, LDX, LDY into register reg
Load(c, mode, reg) ==
    Bind(get_address(c, mode), LAMBDA m :
    Bind(Set(m.c, [m.c EXCEPT !.registers[reg] = m.v]), LAMBDA c1 :
    ZeroNegativeOf(c1, c1.registers[reg])))

LogicalShiftRight(c, mode) ==
    Bind(get_address(c, mode), LAMBDA m :
    Bind(BitAnd(m.v \div 2, 255), LAMBDA tmp2 :
    Carry(ZeroNegativeOf(set_address(m.c, mode, tmp2), tmp2),
          BitAnd(m.v, 1) # 0)))

\* a NOP that charges no cycles
NoOperationWithoutCycles(c) == c

NoOperation(c) == AddCycles(c, 2)

OrWithAccumulator(c, mode) ==
    Bind(get_address(c, mode), LAMBDA m :
    Bind(Set(m.c, [m.c EXCEPT !.registers.accumulator = BitOr(@, m.v)]), LAMBDA c1 :
    ZeroNegativeOf(c1, c1.registers.accumulator)))

PushAccumulator(c) ==
    Bind(AddCycles(c, 3), LAMBDA c1 : push(c1, c1.registers.accumulator))

PushProcessorStatus(c) ==
    Bind(AddCycles(c, 3), LAMBDA c1 : push(c1, to_byte(c1.status_flags)))

PullAccumulator(c) ==
    Bind(pop(AddCycles(c, 4)), LAMBDA p :
    Bind(Set(p.c, [p.c EXCEPT !.registers.accumulator = p.v]), LAMBDA c1 :
    ZeroNegativeOf(c1, c1.registers.accumulator)))

PullProcessorStatus(c) ==
    Bind(pop(AddCycles(c, 4)), LAMBDA p :
    Set(p.c, [p.c EXCEPT !.status_flags = from_byte(p.v)]))

RotateLeft(c, mode) ==
    Bind(get_address(c, mode), LAMBDA m :
    Bind(IF BoolInt(m.c.status_flags.carry) # 0 THEN 128 ELSE 0, LAMBDA cin :
    Bind(Carry(m.c, BitAnd(m.v, 1) = 1), LAMBDA c1 :
    Bind(BitOr(m.v \div 2, cin), LAMBDA tmp :
    ZeroNegativeOf(set_address(c1, mode, tmp % 256), tmp)))))

\* RTI and RTS share one arm
Return(c) ==
    Bind(pop(AddCycles(c, 6)), LAMBDA p1 :
    Bind(pop(p1.c), LAMBDA p2 :
    Bind(AddU16(p2.c, BitOr(p1.v, p2.v * 256), 1), LAMBDA s :
    Set(s.c, [s.c EXCEPT !.registers.program_counter = s.v]))))

SubtractWithCarry(c, mode) ==
    Bind(get_address(c, mode), LAMBDA m :
    Bind(m.c.registers.accumulator + BitXor(m.v, 255)
            + BoolInt(m.c.status_flags.carry), LAMBDA tmp2 :
    Bind(Carry(m.c, BitAnd(tmp2, 256) # 0), LAMBDA c1 :
    Bind(Set(c1, [c1 EXCEPT !.registers.accumulator = BitAnd(tmp2, 255)]), LAMBDA c2 :
    Bind(ZeroNegative(c2, c2.registers.accumulator = 0,
                      c2.registers.accumulator > 127), LAMBDA c3 :
    Overflow(c3, BitAnd(BitXor(BoolInt(c3.status_flags.carry),
                               c3.registers.accumulator), 128) # 0))))))

\* STA, STX, STY from register reg
Store(c, mode, reg) == put_address(c, mode, c.registers[reg])

\* TAX, TAY, TSX, TXA, TYA: registers[to] = registers[from], flags from it
Transfer(c, from, to) ==
    Bind(AddCycles(c, 2), LAMBDA c1 :
    Bind(Set(c1, [c1 EXCEPT !.registers[to] = c1.registers[from]]), LAMBDA c2 :
    ZeroNegativeOf(c2, c2.registers[to])))

TransferXToStackPointer(c) ==
    Bind(AddCycles(c, 2), LAMBDA c1 :
    Set(c1, [c1 EXCEPT !.registers.stack_pointer = c1.registers.x]))

-----------------------------------------------------------------------------
(* opcodes.rs: the 256-entry decoder.  The file is not among the sources;  *)
(* the table is the canonical 6502 opcode matrix for the 56 documented     *)
(* instructions, as the specification's section 4.2 requires, and every    *)
(* unassigned opcode decodes to the invalid marker.                        *)

OpCodeEntries ==
    {
     <<\h69, "AddWithCarry", "Immediate">>,
     <<\h65, "AddWithCarry", "ZeroPage">>,
     <<\h75, "AddWithCarry", "ZeroPageX">>,
     <<\h6D, "AddWithCarry", "Absolute">>,
     <<\h7D, "AddWithCarry", "AbsoluteX">>,
     <<\h79, "AddWithCarry", "AbsoluteY">>,
     <<\h61, "AddWithCarry", "XIndirect">>,
     <<\h71, "AddWithCarry", "IndirectY">>,
     <<\h29, "AndWithAccumulator", "Immediate">>,
     <<\h25, "AndWithAccumulator", "ZeroPage">>,
     <<\h35, "AndWithAccumulator", "ZeroPageX">>,
     <<\h2D, "AndWithAccumulator", "Absolute">>,
     <<\h3D, "AndWithAccumulator", "AbsoluteX">>,
     <<\h39, "AndWithAccumulator", "AbsoluteY">>,
     <<\h21, "AndWithAccumulator", "XIndirect">>,
     <<\h31, "AndWithAccumulator", "IndirectY">>,
     <<\h0A, "ArithmeticShiftLeft", "Accumulator">>,
     <<\h06, "ArithmeticShiftLeft", "ZeroPage">>,
     <<\h16, "ArithmeticShiftLeft", "ZeroPageX">>,
     <<\h0E, "ArithmeticShiftLeft", "Absolute">>,
     <<\h1E, "ArithmeticShiftLeft", "AbsoluteX">>,
     <<\h90, "BranchIfCarryClear", "Relative">>,
     <<\hB0, "BranchIfCarrySet", "Relative">>,
     <<\hF0, "BranchIfEqual", "Relative">>,
     <<\h24, "BitSet", "ZeroPage">>, <<\h2C, "BitSet", "Absolute">>,
     <<\h30, "BranchIfMinus", "Relative">>,
     <<\hD0, "BranchIfNotEqual", "Relative">>,
     <<\h10, "BranchIfPlus", "Relative">>,
     <<\h00, "Break", "Implied">>,
     <<\h50, "BranchIfOverflowClear", "Relative">>,
     <<\h70, "BranchIfOverflowSet", "Relative">>,
     <<\h18, "ClearCarry", "Implied">>,
     <<\hD8, "ClearDecimal", "Implied">>,
     <<\h58, "ClearInterrupt", "Implied">>,
     <<\hB8, "ClearOverflow", "Implied">>,
     <<\hC9, "CompareWithAccumulator", "Immediate">>,
     <<\hC5, "CompareWithAccumulator", "ZeroPage">>,
     <<\hD5, "CompareWithAccumulator", "ZeroPageX">>,
     <<\hCD, "CompareWithAccumulator", "Absolute">>,
     <<\hDD, "CompareWithAccumulator", "AbsoluteX">>,
     <<\hD9, "CompareWithAccumulator", "AbsoluteY">>,
     <<\hC1, "CompareWithAccumulator", "XIndirect">>,
     <<\hD1, "CompareWithAccumulator", "IndirectY">>,
     <<\hE0, "CompareWithX", "Immediate">>,
     <<\hE4, "CompareWithX", "ZeroPage">>,
     <<\hEC, "CompareWithX", "Absolute">>,
     <<\hC0, "CompareWithY", "Immediate">>,
     <<\hC4, "CompareWithY", "ZeroPage">>,
     <<\hCC, "CompareWithY", "Absolute">>,
     <<\hC6, "Decrement", "ZeroPage">>, <<\hD6, "Decrement", "ZeroPageX">>,
     <<\hCE, "Decrement", "Absolute">>, <<\hDE, "Decrement", "AbsoluteX">>,
     <<\hCA, "DecrementX", "Implied">>,
     <<\h88, "DecrementY", "Implied">>,
     <<\h49, "ExclusiveOrWithAccumulator", "Immediate">>,
     <<\h45, "ExclusiveOrWithAccumulator", "ZeroPage">>,
     <<\h55, "ExclusiveOrWithAccumulator", "ZeroPageX">>,
     <<\h4D, "ExclusiveOrWithAccumulator", "Absolute">>,
     <<\h5D, "ExclusiveOrWithAccumulator", "AbsoluteX">>,
     <<\h59, "ExclusiveOrWithAccumulator", "AbsoluteY">>,
     <<\h41, "ExclusiveOrWithAccumulator", "XIndirect">>,
     <<\h51, "ExclusiveOrWithAccumulator", "IndirectY">>,
     <<\hE6, "Increment", "ZeroPage">>, <<\hF6, "Increment", "ZeroPageX">>,
     <<\hEE, "Increment", "Absolute">>, <<\hFE, "Increment", "AbsoluteX">>,
     <<\hE8, "IncrementX", "Implied">>,
     <<\hC8, "IncrementY", "Implied">>,
     <<\h4C, "Jump", "Absolute">>, <<\h6C, "Jump", "Indirect">>,
     <<\h20, "JumpSubroutine", "Absolute">>,
     <<\hA9, "LoadAccumulator", "Immediate">>,
     <<\hA5, "LoadAccumulator", "ZeroPage">>,
     <<\hB5, "LoadAccumulator", "ZeroPageX">>,
     <<\hAD, "LoadAccumulator", "Absolute">>,
     <<\hBD, "LoadAccumulator", "AbsoluteX">>,
     <<\hB9, "LoadAccumulator", "AbsoluteY">>,
     <<\hA1, "LoadAccumulator", "XIndirect">>,
     <<\hB1, "LoadAccumulator", "IndirectY">>,
     <<\hA2, "LoadX", "Immediate">>, <<\hA6, "LoadX", "ZeroPage">>,
     <<\hB6, "LoadX", "ZeroPageY">>, <<\hAE, "LoadX", "Absolute">>,
     <<\hBE, "LoadX", "AbsoluteY">>,
     <<\hA0, "LoadY", "Immediate">>, <<\hA4, "LoadY", "ZeroPage">>,
     <<\hB4, "LoadY", "ZeroPageX">>, <<\hAC, "LoadY", "Absolute">>,
     <<\hBC, "LoadY", "AbsoluteX">>,
     <<\h4A, "LogicalShiftRight", "Accumulator">>,
     <<\h46, "LogicalShiftRight", "ZeroPage">>,
     <<\h56, "LogicalShiftRight", "ZeroPageX">>,
     <<\h4E, "LogicalShiftRight", "Absolute">>,
     <<\h5E, "LogicalShiftRight", "AbsoluteX">>,
     <<\hEA, "NoOperation", "Implied">>,
     <<\h09, "OrWithAccumulator", "Immediate">>,
     <<\h05, "OrWithAccumulator", "ZeroPage">>,
     <<\h15, "OrWithAccumulator", "ZeroPageX">>,
     <<\h0D, "OrWithAccumulator", "Absolute">>,
     <<\h1D, "OrWithAccumulator", "AbsoluteX">>,
     <<\h19, "OrWithAccumulator", "AbsoluteY">>,
     <<\h01, "OrWithAccumulator", "XIndirect">>,
     <<\h11, "OrWithAccumulator", "IndirectY">>,
     <<\h48, "PushAccumulator", "Implied">>,
     <<\h08, "PushProcessorStatus", "Implied">>,
     <<\h68, "PullAccumulator", "Implied">>,
     <<\h28, "PullProcessorStatus", "Implied">>,
     <<\h2A, "RotateLeft", "Accumulator">>,
     <<\h26, "RotateLeft", "ZeroPage">>, <<\h36, "RotateLeft", "ZeroPageX">>,
     <<\h2E, "RotateLeft", "Absolute">>, <<\h3E, "RotateLeft", "AbsoluteX">>,
     <<\h6A, "RotateRight", "Accumulator">>,
     <<\h66, "RotateRight", "ZeroPage">>,
     <<\h76, "RotateRight", "ZeroPageX">>,
     <<\h6E, "RotateRight", "Absolute">>,
     <<\h7E, "RotateRight", "AbsoluteX">>,
     <<\h40, "ReturnFromInterrupt", "Implied">>,
     <<\h60, "ReturnFromSubroutine", "Implied">>,
     <<\hE9, "SubtractWithCarry", "Immediate">>,
     <<\hE5, "SubtractWithCarry", "ZeroPage">>,
     <<\hF5, "SubtractWithCarry", "ZeroPageX">>,
     <<\hED, "SubtractWithCarry", "Absolute">>,
     <<\hFD, "SubtractWithCarry", "AbsoluteX">>,
     <<\hF9, "SubtractWithCarry", "AbsoluteY">>,
     <<\hE1, "SubtractWithCarry", "XIndirect">>,
     <<\hF1, "SubtractWithCarry", "IndirectY">>,
     <<\h38, "SetCarry", "Implied">>,
     <<\hF8, "SetDecimal", "Implied">>,
     <<\h78, "SetInterruptDisable", "Implied">>,
     <<\h85, "StoreAccumulator", "ZeroPage">>,
     <<\h95, "StoreAccumulator", "ZeroPageX">>,
     <<\h8D, "StoreAccumulator", "Absolute">>,
     <<\h9D, "StoreAccumulator", "AbsoluteX">>,
     <<\h99, "StoreAccumulator", "AbsoluteY">>,
     <<\h81, "StoreAccumulator", "XIndirect">>,
     <<\h91, "StoreAccumulator", "IndirectY">>,
     <<\h86, "StoreX", "ZeroPage">>, <<\h96, "StoreX", "ZeroPageY">>,
     <<\h8E, "StoreX", "Absolute">>,
     <<\h84, "StoreY", "ZeroPage">>, <<\h94, "StoreY", "ZeroPageX">>,
     <<\h8C, "StoreY", "Absolute">>,
     <<\hAA, "TransferAccumulatorToX", "Implied">>,
     <<\hA8, "TransferAccumulatorToY", "Implied">>,
     <<\hBA, "TransferStackPointerToX", "Implied">>,
     <<\h8A, "TransferXToAccumulator", "Implied">>,
     <<\h9A, "TransferXToStackPointer", "Implied">>,
     <<\h98, "TransferYToAccumulator", "Implied">>
    }

OpCodesTable ==
    [b \in Byte |->
        IF \E e \in OpCodeEntries : e[1] = b
        THEN LET e == CHOOSE e \in OpCodeEntries : e[1] = b IN <<e[2], e[3]>>
        ELSE <<"Invalid", "Unknown">>]

\* OpCodes::get
OpCodesGet(b) == OpCodesTable[b]

-----------------------------------------------------------------------------
(* lib.rs: CPU::step, CPU::reset, CPU::reset_to                            *)

Execute(c, instruction, mode) ==
    CASE instruction = "AddWithCarry" -> AddWithCarry(c, mode)
      [] instruction = "AndWithAccumulator" -> AndWithAccumulator(c, mode)
      [] instruction = "ArithmeticShiftLeft" -> ArithmeticShiftLeft(c, mode)
      [] instruction = "BranchIfCarryClear" -> branch(c, ~c.status_flags.carry)
      [] instruction = "BranchIfCarrySet" -> branch(c, c.status_flags.carry)
      [] instruction = "BranchIfEqual" -> branch(c, c.status_flags.zero)
      [] instruction = "BranchIfMinus" -> branch(c, c.status_flags.negative)
      [] instruction = "BranchIfNotEqual" -> branch(c, ~c.status_flags.zero)
      [] instruction = "BranchIfPlus" -> branch(c, ~c.status_flags.negative)
      [] instruction = "BranchIfOverflowClear" -> branch(c, ~c.status_flags.overflow)
      [] instruction = "BranchIfOverflowSet" -> branch(c, c.status_flags.overflow)
      [] instruction = "BitSet" -> BitSet(c, mode)
      [] instruction = "Break" -> Break(c)
      [] instruction = "ClearCarry" -> SetFlag(c, "carry", FALSE)
      [] instruction = "ClearDecimal" -> SetFlag(c, "decimal", FALSE)
      [] instruction = "ClearInterrupt" -> SetFlag(c, "interrupt", FALSE)
      [] instruction = "ClearOverflow" -> SetFlag(c, "overflow", FALSE)
      [] instruction = "CompareWithAccumulator" -> Compare(c, mode, "accumulator")
      [] instruction = "CompareWithX" -> Compare(c, mode, "x")
      [] instruction = "CompareWithY" -> Compare(c, mode, "y")
      [] instruction = "Decrement" -> Decrement(c, mode)
      [] instruction = "DecrementX" -> DecrementRegister(c, "x")
      [] instruction = "DecrementY" -> DecrementRegister(c, "y")
      [] instruction = "ExclusiveOrWithAccumulator" -> ExclusiveOrWithAccumulator(c, mode)
      [] instruction = "Increment" -> Increment(c, mode)
      [] instruction = "IncrementX" -> IncrementRegister(c, "x")
      [] instruction = "IncrementY" -> IncrementRegister(c, "y")
      [] instruction = "Jump" -> Jump(c, mode)
      [] instruction = "JumpSubroutine" -> JumpSubroutine(c)
      [] instruction = "LoadAccumulator" -> Load(c, mode, "accumulator")
      [] instruction = "LoadX" -> Load(c, mode, "x")
      [] instruction = "LoadY" -> Load(c, mode, "y")
      [] instruction = "LogicalShiftRight" -> LogicalShiftRight(c, mode)
      [] instruction = "NoOperation" -> NoOperation(c)
      [] instruction = "OrWithAccumulator" -> OrWithAccumulator(c, mode)
      [] instruction = "PushAccumulator" -> PushAccumulator(c)
      [] instruction = "PushProcessorStatus" -> PushProcessorStatus(c)
      [] instruction = "PullAccumulator" -> PullAccumulator(c)
      [] instruction = "PullProcessorStatus" -> PullProcessorStatus(c)
      [] instruction = "RotateLeft" -> RotateLeft(c, mode)
      [] instruction \in {"ReturnFromInterrupt", "ReturnFromSubroutine"} -> Return(c)
      [] instruction = "SubtractWithCarry" -> SubtractWithCarry(c, mode)
      [] instruction = "SetCarry" -> SetFlag(c, "carry", TRUE)
      [] instruction = "SetDecimal" -> SetFlag(c, "decimal", TRUE)
      [] instruction = "SetInterruptDisable" -> SetFlag(c, "interrupt", TRUE)
      [] instruction = "StoreAccumulator" -> Store(c, mode, "accumulator")
      [] instruction = "StoreX" -> Store(c, mode, "x")
      [] instruction = "StoreY" -> Store(c, mode, "y")
      [] instruction = "TransferAccumulatorToX" -> Transfer(c, "accumulator", "x")
      [] instruction = "TransferAccumulatorToY" -> Transfer(c, "accumulator", "y")
      [] instruction = "TransferStackPointerToX" -> Transfer(c, "stack_pointer", "x")
      [] instruction = "TransferXToAccumulator" -> Transfer(c, "x", "accumulator")
      [] instruction = "TransferXToStackPointer" -> TransferXToStackPointer(c)
      [] instruction = "TransferYToAccumulator" -> Transfer(c, "y", "accumulator")
      [] OTHER -> Panic(c)

\* a step that keeps counting from the stored cycle counter
StepAccumulatesCycles(c) ==
    Bind(read_byte_and_increment_pc(c), LAMBDA f :
    Bind(OpCodesGet(f.v), LAMBDA d :
    Execute(f.c, d[1], d[2])))

step(c) ==
    Bind(read_byte_and_increment_pc(Set(c, [c EXCEPT !.cycles = 0])), LAMBDA f :
    Bind(OpCodesGet(f.v), LAMBDA d :
    Execute(f.c, d[1], d[2])))

\* a reset_to that leaves the status flags as they were
ResetToKeepsFlags(c, program_counter, accumulator) ==
    Bind(Set(c, [c EXCEPT !.registers = RegistersNew]), LAMBDA c1 :
    Bind(Set(c1, [c1 EXCEPT !.registers.accumulator = accumulator]), LAMBDA c3 :
    Set(c3, [c3 EXCEPT !.registers.program_counter = program_counter])))

reset_to(c, program_counter, accumulator) ==
    Bind(Set(c, [c EXCEPT !.registers = RegistersNew]), LAMBDA c1 :
    Bind(Set(c1, [c1 EXCEPT !.status_flags = StatusFlagsNew]), LAMBDA c2 :
    Bind(Set(c2, [c2 EXCEPT !.registers.accumulator = accumulator]), LAMBDA c3 :
    Set(c3, [c3 EXCEPT !.registers.program_counter = program_counter]))))

reset(c) ==
    Bind(read_word(c, 65532), LAMBDA w : reset_to(w.c, w.v, 0))

-----------------------------------------------------------------------------
(* The state machine: the public operations of CPU, called by an embedder. *)

\* the CPU as the variables hold it
Cur == Bundle(registers, status_flags, memory, cycles, status, overflow_checks)

\* the number of calls of operation o so far
Count(o) == Cardinality({i \in DOMAIN ops : ops[i][1] = o})

\* the last operation and its arguments
LastOp == IF ops = <<>> THEN "new" ELSE ops[Len(ops)][1]
LastArgs == IF ops = <<>> THEN <<>> ELSE ops[Len(ops)][2]

\* the variables after operation o(args) left the CPU as c and returned v
Install(c, v, o, args) ==
    /\ registers' = c.registers
    /\ status_flags' = c.status_flags
    /\ memory' = c.memory
    /\ cycles' = c.cycles
    /\ status' = c.status
    /\ ret' = IF Running(c) THEN v ELSE -1
    /\ accesses' = c.accesses
    /\ pre' = Cur
    /\ ops' = Append(ops, <<o, args>>)
    /\ UNCHANGED <<overflow_checks, start>>

\* cpu.step(), while the embedder has steps left to run; the history keeps
\* the instruction the step decodes
Step ==
    /\ status = "running"
    /\ steps_left > 0
    /\ steps_left' = steps_left - 1
    /\ \E c \in {step(Cur)} :
          Install(c, c.cycles, "step",
                  <<OpCodesGet(MemRead(memory, registers.program_counter))[1]>>)

\* cpu.push(value): the pushes of a run come before its pops
Push(value) ==
    /\ status = "running"
    /\ Count("push") < MaxPush
    /\ Count("pop") = 0
    /\ UNCHANGED steps_left
    /\ \E c \in {push(Cur, value)} : Install(c, -1, "push", <<value>>)

\* cpu.pop(), up to MaxPush times
Pop ==
    /\ status = "running"
    /\ Count("pop") < MaxPush
    /\ UNCHANGED steps_left
    /\ \E p \in {pop(Cur)} : Install(p.c, p.v, "pop", <<>>)

\* cpu.reset(), while the embedder has resets left to make
Reset ==
    /\ status = "running"
    /\ Count("reset") + Count("reset_to") < MaxResets
    /\ UNCHANGED steps_left
    /\ \E c \in {reset(Cur)} : Install(c, -1, "reset", <<>>)

\* cpu.reset_to(program_counter, accumulator)
ResetTo(program_counter, accumulator) ==
    /\ status = "running"
    /\ Count("reset") + Count("reset_to") < MaxResets
    /\ UNCHANGED steps_left
    /\ \E c \in {reset_to(Cur, program_counter, accumulator)} :
          Install(c, -1, "reset_to", <<program_counter, accumulator>>)

-----------------------------------------------------------------------------
(* Initial states.  CPU::new binds the CPU to a memory the embedder has    *)
(* loaded; registers and status_flags are public fields, and every value   *)
(* of them is also reached by stepping (reset_to sets PC and A; LDX, LDY   *)
(* and TXS set X, Y and SP; PHA followed by PLP sets all eight flags), so  *)
(* the specifications below start from chosen registers and flags.  The    *)
(* embedder then calls step() n times.                                     *)

Regs(pc, sp, a, x, y) ==
    [program_counter |-> pc, stack_pointer |-> sp, accumulator |-> a,
     x |-> x, y |-> y]

\* a memory holding `bytes` from address `base` on and zero elsewhere
Image(base, bytes) ==
    [addr \in {base + i - 1 : i \in {j \in DOMAIN bytes : bytes[j] # 0}} |->
        bytes[addr - base + 1]]

InitWith(Rs, Fs, Ms, n) ==
    /\ registers \in Rs
    /\ status_flags \in Fs
    /\ memory \in Ms
    /\ cycles = 0
    /\ status = "running"
    /\ overflow_checks \in BOOLEAN
    /\ ret = -1
    /\ accesses = <<>>
    /\ start = Cur
    /\ pre = Cur
    /\ ops = <<>>
    /\ steps_left = n

\* the CPU of the last step once its opcode byte is fetched
Fetched == increment_pc(pre)

\* the opcode byte, instruction and mode decoded by the last step
Opcode == MemRead(pre.memory, pre.registers.program_counter)
DecodedInstruction == OpCodesGet(Opcode)[1]
DecodedMode == OpCodesGet(Opcode)[2]

\* the last operation was a step that returned
Stepped == LastOp = "step" /\ status = "running"

\* the run has made n steps, all of which returned
Ran(n) == Count("step") = n /\ Len(ops) = n /\ status = "running"

-----------------------------------------------------------------------------
(* SpecOpcodes: every opcode byte, with operand bytes that reach each      *)
(* addressing mode with and without a page crossing.                       *)

OperandLow  == {\h00, \h80, \hFF}
OperandHigh == {\h00, \h02}
SomeFlags   == {StatusFlagsNew, [f \in DOMAIN StatusFlagsNew |-> TRUE]}

InitOpcodes ==
    InitWith({Regs(\h0200, \hFF, a, x, \h01) : a \in {\h00, \h81}, x \in {\h00, \h01}},
             SomeFlags,
             {Image(\h0200, <<opcode, b1, b2>>) :
                 opcode \in Byte, b1 \in OperandLow, b2 \in OperandHigh},
             MaxSteps)

SpecOpcodes == InitOpcodes /\ [][Step]_vars

\* C1: after any step that returns, the cycle count returned by step() is at
\* least 2, for every opcode the step engine handles, BRK included.
C1_StepReturnsAtLeastTwoCycles ==
    Stepped => ret >= 2

-----------------------------------------------------------------------------
(* SpecADC: ADC #M for every accumulator, operand and carry, and scenario  *)
(* S3 (CLC; LDA #$7F; ADC #$01).                                           *)

ProgramADC(m) == Image(\h0400, <<\h69, m>>)
ProgramS3 == Image(\h0400, <<\h18, \hA9, \h7F, \h69, \h01>>)

InitADC ==
    \/ InitWith({Regs(\h0400, \hFF, a, \h00, \h00) : a \in Byte},
                {[StatusFlagsNew EXCEPT !.carry = cf] : cf \in BOOLEAN},
                {ProgramADC(m) : m \in Byte},
                1)
    \/ InitWith({Regs(\h0400, \hFF, \h00, \h00, \h00)},
                {StatusFlagsNew, [StatusFlagsNew EXCEPT !.carry = TRUE]},
                {ProgramS3},
                3)

SpecADC == InitADC /\ [][Step]_vars

\* the immediate operand byte of the instruction the last step ran
ImmediateOperand == MemRead(pre.memory, pre.registers.program_counter + 1)

\* the effect the ADC law states on accumulator and flags for r = A + M + C
AddWithCarryLaw(r) ==
    /\ registers.accumulator = r % 256
    /\ status_flags.carry = (r > 255)
    /\ status_flags.zero = (r % 256 = 0)
    /\ status_flags.negative = (Bit(r % 256, 7) = 1)
    /\ status_flags.overflow = ((r > 255) # (Bit(r % 256, 7) = 1))

\* C2: ADC with operand M, accumulator A and carry C leaves A = (A + M + C)
\* mod 256, carry = (A + M + C > $FF), zero and negative from the new A and
\* overflow = carry XOR negative; CLC; LDA #$7F; ADC #$01 ends with A = $80,
\* C = 0, N = 1, Z = 0, V = 1.
C2_AddWithCarryLaw ==
    /\ (Stepped /\ DecodedInstruction = "AddWithCarry") =>
          AddWithCarryLaw(pre.registers.accumulator + ImmediateOperand
                          + BoolInt(pre.status_flags.carry))
    /\ (Ran(3) /\ start.memory = ProgramS3) =>
          /\ registers.accumulator = \h80
          /\ ~status_flags.carry
          /\ status_flags.negative
          /\ ~status_flags.zero
          /\ status_flags.overflow

-----------------------------------------------------------------------------
(* SpecStack: push and pop called by the embedder from every stack         *)
(* pointer: up to MaxPush pushes, then up to MaxPush pops.                 *)

PushValues == {\h11, \h22}

InitStack ==
    InitWith({Regs(\h0000, sp, \h00, \h00, \h00) : sp \in Byte},
             {StatusFlagsNew}, {SimpleMemoryNew}, 0)

NextStack == (\E value \in PushValues : Push(value)) \/ Pop

SpecStack == InitStack /\ [][NextStack]_vars

\* C3: push writes the byte at $0100 + SP and then sets SP to (SP - 1) mod
\* 256; pop sets SP to (SP + 1) mod 256 and then reads $0100 + SP.
C3_StackPointerIsModular ==
    /\ LastOp = "push" =>
          /\ MemRead(memory, 256 + pre.registers.stack_pointer) = LastArgs[1]
          /\ registers.stack_pointer = (pre.registers.stack_pointer - 1) % 256
    /\ LastOp = "pop" =>
          /\ registers.stack_pointer = (pre.registers.stack_pointer + 1) % 256
          /\ ret = MemRead(memory, 256 + registers.stack_pointer)

\* C4: N pushes followed by N pops leave SP equal to its starting value,
\* for every starting SP.
C4_PushesThenPopsRestoreStackPointer ==
    Count("pop") = Count("push") =>
        registers.stack_pointer = start.registers.stack_pointer

-----------------------------------------------------------------------------
(* SpecPHAPLA: PHA; PLA for every accumulator and stack pointer, and       *)
(* scenario S5 (LDA #$03; PHA; LDA #$00; PLA).                             *)

ProgramPHAPLA == Image(\h0600, <<\h48, \h68>>)
ProgramS5 == Image(\h0600, <<\hA9, \h03, \h48, \hA9, \h00, \h68>>)

InitPHAPLA ==
    \/ InitWith({Regs(\h0600, sp, a, \h00, \h00) : sp \in Byte, a \in Byte},
                {StatusFlagsNew}, {ProgramPHAPLA}, 2)
    \/ InitWith({Regs(\h0600, \hFF, \h00, \h00, \h00)},
                SomeFlags, {ProgramS5}, 4)

SpecPHAPLA == InitPHAPLA /\ [][Step]_vars

\* C5: PHA immediately followed by PLA leaves A and SP at their starting
\* values and sets zero = (A = 0), negative = bit 7 of A, for every A and SP;
\* S5 ends with A = $03, Z = 0, N = 0, SP = $FF.
C5_PushPullAccumulatorRoundTrip ==
    /\ (Ran(2) /\ start.memory = ProgramPHAPLA) =>
          /\ registers.accumulator = start.registers.accumulator
          /\ registers.stack_pointer = start.registers.stack_pointer
          /\ status_flags.zero = (start.registers.accumulator = 0)
          /\ status_flags.negative = (Bit(start.registers.accumulator, 7) = 1)
    /\ (Ran(4) /\ start.memory = ProgramS5) =>
          /\ registers.accumulator = \h03
          /\ ~status_flags.zero
          /\ ~status_flags.negative
          /\ registers.stack_pointer = \hFF

-----------------------------------------------------------------------------
(* SpecPHPPLP: PHP; PLP for every combination of the eight flags and every *)
(* stack pointer.                                                          *)

ProgramPHPPLP == Image(\h0600, <<\h08, \h28>>)

InitPHPPLP ==
    InitWith({Regs(\h0600, sp, \h00, \h00, \h00) : sp \in Byte},
             AllStatusFlags, {ProgramPHPPLP}, 2)

SpecPHPPLP == InitPHPPLP /\ [][Step]_vars

\* C6: PHP immediately followed by PLP leaves the packed flag byte unchanged
\* and restores SP, for every combination of the flags and every SP.
C6_PushPullStatusRoundTrip ==
    Ran(2) =>
        /\ to_byte(status_flags) = to_byte(start.status_flags)
        /\ registers.stack_pointer = start.registers.stack_pointer

-----------------------------------------------------------------------------
(* SpecJSR: JSR t at p, then RTS at t, from every stack pointer.  The      *)
(* first program is scenario S4.                                           *)

JSRAddresses == {\h0500, \h02FE}
JSRTargets == {\h050A, \h3000}

ProgramJSR(p, t) ==
    Image(p, <<\h20, t % 256, t \div 256>>) @@ Image(t, <<\h60>>)

InitJSR ==
    \E p \in JSRAddresses :
        InitWith({Regs(p, sp, \h00, \h00, \h00) : sp \in Byte},
                 SomeFlags,
                 {ProgramJSR(p, t) : t \in JSRTargets},
                 2)

SpecJSR == InitJSR /\ [][Step]_vars

\* the address and target of the JSR the run started at
JSRAt == start.registers.program_counter
JSRTarget == MemRead(start.memory, JSRAt + 1) + 256 * MemRead(start.memory, JSRAt + 2)

\* C7: JSR at p with target t pushes p + 2, high byte first, sets PC to t and
\* returns 6 cycles; the RTS executed next sets PC to p + 3, restores SP and
\* returns 6 cycles, for every starting SP.
C7_JumpSubroutineReturn ==
    /\ (Ran(1) /\ DecodedInstruction = "JumpSubroutine") =>
          /\ MemRead(memory, 256 + start.registers.stack_pointer)
                = (JSRAt + 2) \div 256
          /\ MemRead(memory, 256 + ((start.registers.stack_pointer - 1) % 256))
                = (JSRAt + 2) % 256
          /\ registers.stack_pointer = (start.registers.stack_pointer - 2) % 256
          /\ registers.program_counter = JSRTarget
          /\ ret = 6
    /\ (Ran(2) /\ DecodedInstruction = "ReturnFromSubroutine") =>
          /\ registers.program_counter = JSRAt + 3
          /\ registers.stack_pointer = start.registers.stack_pointer
          /\ ret = 6

-----------------------------------------------------------------------------
(* SpecRotate: ROL and ROR in each of their addressing modes, for every    *)
(* operand byte and carry.                                                 *)

RotateOpcodes ==
    {\h2A, \h26, \h36, \h2E, \h3E, \h6A, \h66, \h76, \h6E, \h7E}

\* the effective address per addressing mode (specification 4.3)
EffectiveAddress(c, mode) ==
    CASE mode = "ZeroPage" -> MemRead(c.memory, c.registers.program_counter + 1)
      [] mode = "ZeroPageX" ->
            (MemRead(c.memory, c.registers.program_counter + 1) + c.registers.x) % 256
      [] mode = "Absolute" ->
            MemRead(c.memory, c.registers.program_counter + 1)
                + 256 * MemRead(c.memory, c.registers.program_counter + 2)
      [] mode = "AbsoluteX" ->
            (MemRead(c.memory, c.registers.program_counter + 1)
                + 256 * MemRead(c.memory, c.registers.program_counter + 2)
                + c.registers.x) % 65536

\* the operand of an instruction in CPU c: the accumulator or a memory byte
Operand(c, at, mode) ==
    IF mode = "Accumulator" THEN c.registers.accumulator
    ELSE MemRead(c.memory, EffectiveAddress(at, mode))

\* where the embedder puts the operand byte: X is $01, the zero-page
\* operand byte is $10 and the absolute operand word is $03FF
OperandAddress(mode) ==
    CASE mode = "ZeroPage" -> \h0010
      [] mode = "ZeroPageX" -> \h0011
      [] mode = "Absolute" -> \h03FF
      [] mode = "AbsoluteX" -> \h0400

\* a memory with the instruction at $0200 and byte m where its operand is
ProgramRotate(opcode, m) ==
    CASE OpCodesGet(opcode)[2] = "Accumulator" -> Image(\h0200, <<opcode>>)
      [] OpCodesGet(opcode)[2] \in {"ZeroPage", "ZeroPageX"} ->
            Image(\h0200, <<opcode, \h10>>)
                @@ Image(OperandAddress(OpCodesGet(opcode)[2]), <<m>>)
      [] OTHER ->
            Image(\h0200, <<opcode, \hFF, \h03>>)
                @@ Image(OperandAddress(OpCodesGet(opcode)[2]), <<m>>)

InitRotate ==
    \E m \in Byte :
        InitWith({Regs(\h0200, \hFF, m, \h01, \h00)},
                 {[StatusFlagsNew EXCEPT !.carry = cf] : cf \in BOOLEAN},
                 {ProgramRotate(opcode, m) : opcode \in RotateOpcodes},
                 1)

SpecRotate == InitRotate /\ [][Step]_vars

\* the effect a rotate states: result written back, carry, zero and negative
RotateLaw(result, carry) ==
    /\ Operand(Cur, pre, DecodedMode) = result
    /\ status_flags.carry = carry
    /\ status_flags.zero = (result = 0)
    /\ status_flags.negative = (Bit(result, 7) = 1)

\* C8: ROL on operand M with prior carry c writes ((M << 1) mod 256) | c back
\* to the operand, sets carry to bit 7 of M and zero/negative from the result.
C8_RotateLeft ==
    (Stepped /\ DecodedInstruction = "RotateLeft") =>
        RotateLaw(((Operand(pre, pre, DecodedMode) * 2) % 256)
                      + BoolInt(pre.status_flags.carry),
                  Bit(Operand(pre, pre, DecodedMode), 7) = 1)

\* C9: a step whose decoded instruction is ROR completes normally, writes
\* (M >> 1) | (prior carry << 7) back to the operand, sets carry to bit 0 of M
\* and zero/negative from the result; it does not end in a panic.
C9_RotateRight ==
    (LastOp = "step" /\ DecodedInstruction = "RotateRight") =>
        /\ status = "running"
        /\ RotateLaw(Operand(pre, pre, DecodedMode) \div 2
                         + 128 * BoolInt(pre.status_flags.carry),
                     Bit(Operand(pre, pre, DecodedMode), 0) = 1)

-----------------------------------------------------------------------------
(* SpecJMP: JMP imm16 and JMP (imm16) for every imm16; memory holds the    *)
(* word $5678 at imm16 and the instruction at $0200.                       *)

ProgramJMP(opcode, imm16) ==
    Image(\h0200, <<opcode, imm16 % 256, imm16 \div 256>>)
        @@ Image(imm16, <<\h78>>) @@ Image((imm16 + 1) % 65536, <<\h56>>)

InitJMP ==
    InitWith({Regs(\h0200, \hFF, \h00, \h00, \h00)},
             {StatusFlagsNew},
             {ProgramJMP(opcode, imm16) : opcode \in {\h4C, \h6C}, imm16 \in Word},
             1)

SpecJMP == InitJMP /\ [][Step]_vars

\* the operand word of the instruction the last step ran
Imm16 ==
    MemRead(pre.memory, pre.registers.program_counter + 1)
        + 256 * MemRead(pre.memory, pre.registers.program_counter + 2)

\* C10: JMP Absolute sets PC to imm16 and returns 3 cycles; JMP Indirect sets
\* PC to the little-endian word at imm16 (low byte from imm16, high byte from
\* imm16 + 1) and returns 5 cycles; neither changes A, X, Y, SP, flags or memory.
C10_Jump ==
    (Stepped /\ DecodedInstruction = "Jump") =>
        /\ DecodedMode = "Absolute" =>
              registers.program_counter = Imm16 /\ ret = 3
        /\ DecodedMode = "Indirect" =>
              /\ registers.program_counter =
                    MemRead(pre.memory, Imm16) + 256 * MemRead(pre.memory, (Imm16 + 1) % 65536)
              /\ ret = 5
        /\ [registers EXCEPT !.program_counter = 0]
              = [pre.registers EXCEPT !.program_counter = 0]
        /\ status_flags = pre.status_flags
        /\ memory = pre.memory

-----------------------------------------------------------------------------
(* SpecShift: ASL and LSR in each of their addressing modes, for every     *)
(* operand byte and carry.                                                 *)

ShiftOpcodes ==
    {\h0A, \h06, \h16, \h0E, \h1E, \h4A, \h46, \h56, \h4E, \h5E}

InitShift ==
    \E m \in Byte :
        InitWith({Regs(\h0200, \hFF, m, \h01, \h00)},
                 {[StatusFlagsNew EXCEPT !.carry = cf] : cf \in BOOLEAN},
                 {ProgramRotate(opcode, m) : opcode \in ShiftOpcodes},
                 1)

SpecShift == InitShift /\ [][Step]_vars

\* C11: ASL writes back (M << 1) mod 256 and sets carry = bit 7 of M; LSR
\* writes back M >> 1 and sets carry = bit 0 of M; both set zero and negative
\* from the 8-bit result written back.
C11_ShiftLeftAndRight ==
    /\ (Stepped /\ DecodedInstruction = "ArithmeticShiftLeft") =>
          RotateLaw((Operand(pre, pre, DecodedMode) * 2) % 256,
                    Bit(Operand(pre, pre, DecodedMode), 7) = 1)
    /\ (Stepped /\ DecodedInstruction = "LogicalShiftRight") =>
          RotateLaw(Operand(pre, pre, DecodedMode) \div 2,
                    Bit(Operand(pre, pre, DecodedMode), 0) = 1)

-----------------------------------------------------------------------------
(* SpecSBC: SBC #M for every accumulator, operand and carry.               *)

ProgramSBC(m) == Image(\h0400, <<\hE9, m>>)

InitSBC ==
    InitWith({Regs(\h0400, \hFF, a, \h00, \h00) : a \in Byte},
             {[StatusFlagsNew EXCEPT !.carry = cf] : cf \in BOOLEAN},
             {ProgramSBC(m) : m \in Byte},
             1)

SpecSBC == InitSBC /\ [][Step]_vars

\* C12: SBC with operand M, accumulator A and carry C leaves A = r mod 256 for
\* r = A + (M XOR $FF) + C, carry = (r > $FF), zero and negative from the new
\* A and overflow = carry XOR negative.
C12_SubtractWithCarryLaw ==
    (Stepped /\ DecodedInstruction = "SubtractWithCarry") =>
        AddWithCarryLaw(pre.registers.accumulator + (255 - ImmediateOperand)
                        + BoolInt(pre.status_flags.carry))

-----------------------------------------------------------------------------
(* SpecBranch: the eight conditional branches, for every offset byte, at   *)
(* addresses whose targets stay in the page, leave it in either direction  *)
(* and wrap across $FFFF/$0000.                                            *)

BranchOpcodes == {\h90, \hB0, \hF0, \hD0, \h30, \h10, \h50, \h70}

BranchAddresses == {\h1000, \h10F0, \h0000, \hFFF0, \hFFFD, \hFFFE}

BranchFlags ==
    { StatusFlagsNew,
      [f \in DOMAIN StatusFlagsNew |-> TRUE],
      [StatusFlagsNew EXCEPT !.carry = TRUE, !.negative = TRUE],
      [StatusFlagsNew EXCEPT !.zero = TRUE, !.overflow = TRUE] }

InitBranch ==
    \E p \in BranchAddresses :
        InitWith({Regs(p, \hFF, \h42, \h01, \h02)},
                 BranchFlags,
                 {Image(p, <<opcode, o>>) : opcode \in BranchOpcodes, o \in Byte},
                 1)

SpecBranch == InitBranch /\ [][Step]_vars

\* the flag condition each branch instruction tests
BranchCondition(instruction, f) ==
    CASE instruction = "BranchIfCarryClear" -> ~f.carry
      [] instruction = "BranchIfCarrySet" -> f.carry
      [] instruction = "BranchIfEqual" -> f.zero
      [] instruction = "BranchIfNotEqual" -> ~f.zero
      [] instruction = "BranchIfMinus" -> f.negative
      [] instruction = "BranchIfPlus" -> ~f.negative
      [] instruction = "BranchIfOverflowClear" -> ~f.overflow
      [] instruction = "BranchIfOverflowSet" -> f.overflow

\* the last step ran a conditional branch and returned
Branched ==
    /\ Stepped
    /\ DecodedInstruction \in
          {"BranchIfCarryClear", "BranchIfCarrySet", "BranchIfEqual",
           "BranchIfNotEqual", "BranchIfMinus", "BranchIfPlus",
           "BranchIfOverflowClear", "BranchIfOverflowSet"}

\* the last branch's condition held
BranchTaken == BranchCondition(DecodedInstruction, pre.status_flags)

\* the offset byte of the last branch, and the PC after it was consumed
BranchOffset == MemRead(pre.memory, (pre.registers.program_counter + 1) % 65536)
AfterOffset == (pre.registers.program_counter + 2) % 65536

SignExtend(o) == IF o >= 128 THEN o - 256 ELSE o

\* C13: a branch with offset byte o whose condition holds sets PC to
\* (P + sign_extend(o)) mod 65536, P being the PC after the offset byte, and
\* to P otherwise; A, X, Y, SP, the flags and memory are unchanged.
C13_BranchTarget ==
    Branched =>
        /\ registers.program_counter =
              IF BranchTaken
              THEN (AfterOffset + SignExtend(BranchOffset)) % 65536
              ELSE AfterOffset
        /\ [registers EXCEPT !.program_counter = 0]
              = [pre.registers EXCEPT !.program_counter = 0]
        /\ status_flags = pre.status_flags
        /\ memory = pre.memory

\* a branch at $1000 with offset $80 lands at $0F82
C13_BranchBackFromPage10 ==
    /\ Branched /\ BranchTaken
    /\ pre.registers.program_counter = \h1000
    /\ BranchOffset = \h80
    /\ registers.program_counter = \h0F82

\* C14: a taken branch returns 3 cycles exactly when bits 8-15 of the new PC
\* differ from bits 8-15 of the PC after the offset byte, and 2 otherwise; a
\* branch whose condition fails returns 2.
C14_BranchCycles ==
    Branched =>
        ret = IF BranchTaken
                 /\ registers.program_counter \div 256 # AfterOffset \div 256
              THEN 3 ELSE 2

\* a taken branch from page $FF that wraps into page $00 returns 3 cycles
C14_BranchWrapsPastFFFF ==
    /\ Branched /\ BranchTaken
    /\ AfterOffset = \hFFF2
    /\ registers.program_counter < \h0100
    /\ ret = 3

-----------------------------------------------------------------------------
(* SpecFlags: StatusFlags::to_byte and StatusFlags::from_byte called on    *)
(* the CPU's flags, from every combination of the eight flags and with     *)
(* every byte, once each in either order.                                  *)

\* cpu.status_flags.to_byte()
ToByte ==
    /\ status = "running"
    /\ Count("to_byte") = 0
    /\ UNCHANGED steps_left
    /\ Install(Cur, to_byte(status_flags), "to_byte", <<>>)

\* cpu.status_flags = cpu.status_flags.from_byte(byte)
FromByte(byte) ==
    /\ status = "running"
    /\ Count("from_byte") = 0
    /\ UNCHANGED steps_left
    /\ Install([Cur EXCEPT !.status_flags = from_byte(byte)], -1,
               "from_byte", <<byte>>)

InitFlags ==
    InitWith({RegistersNew}, AllStatusFlags, {SimpleMemoryNew}, 0)

NextFlags == ToByte \/ \E byte \in Byte : FromByte(byte)

SpecFlags == InitFlags /\ [][NextFlags]_vars

\* the operation before the last one
OpBefore == IF Len(ops) < 2 THEN <<"new", <<>>>> ELSE ops[Len(ops) - 1]

\* the byte with the stated bit for each flag that is set
PackedFlags(f) ==
    BoolInt(f.carry) + 2 * BoolInt(f.zero) + 4 * BoolInt(f.interrupt)
        + 8 * BoolInt(f.decimal) + 16 * BoolInt(f.brk) + 32 * BoolInt(f.ignored)
        + 64 * BoolInt(f.overflow) + 128 * BoolInt(f.negative)

\* C15: from_byte(to_byte(f)) = f for every combination f of the eight flags,
\* to_byte(from_byte(b)) = b for every byte b, and the bits are carry $01,
\* zero $02, interrupt-disable $04, decimal $08, break $10, ignored $20,
\* overflow $40, negative $80.
C15_FlagPackingRoundTrips ==
    /\ LastOp = "to_byte" =>
          /\ ret = PackedFlags(status_flags)
          /\ OpBefore[1] = "from_byte" => ret = OpBefore[2][1]
    /\ LastOp = "from_byte" =>
          /\ PackedFlags(status_flags) = LastArgs[1]
          /\ LastArgs[1] = PackedFlags(pre.status_flags) =>
                status_flags = pre.status_flags

\* from_byte($30) followed by to_byte returned $30
C15_UnpackedThenPacked ==
    /\ LastOp = "to_byte"
    /\ OpBefore = <<"from_byte", <<\h30>>>>
    /\ ret = \h30
    /\ status_flags.brk /\ status_flags.ignored

-----------------------------------------------------------------------------
(* SpecNOP: runs through programs consisting only of NOPs, inside a page,  *)
(* across a page boundary and up to $FFFF, from several register and flag  *)
(* values and with a byte on the stack.                                    *)

NOPAddresses == {\h0200, \h02FE, \hFFFE}

InitNOP ==
    \E p \in NOPAddresses :
        InitWith({Regs(p, sp, a, x, y) :
                     sp \in {\h00, \h80, \hFF}, a \in {\h00, \h42, \hFF},
                     x \in {\h00, \h01}, y \in {\h00, \h02}},
                 BranchFlags,
                 {Image(p, IF p = \hFFFE THEN <<\hEA, \hEA>>
                                          ELSE <<\hEA, \hEA, \hEA>>)
                      @@ Image(\h0180, <<\h99>>)},
                 MaxSteps)

SpecNOP == InitNOP /\ [][Step]_vars

\* C16: each step that executes NOP advances PC by exactly 1, returns exactly
\* 2 cycles, and leaves A, X, Y, SP, all eight flags and memory unchanged.
C16_NoOperationFrame ==
    (Stepped /\ DecodedInstruction = "NoOperation") =>
        /\ registers.program_counter = (pre.registers.program_counter + 1) % 65536
        /\ ret = 2
        /\ [registers EXCEPT !.program_counter = 0]
              = [pre.registers EXCEPT !.program_counter = 0]
        /\ status_flags = pre.status_flags
        /\ memory = pre.memory

\* the second NOP of a run that started in page 2 at $02FE has run
C16_SecondNoOperation ==
    /\ Ran(2)
    /\ DecodedInstruction = "NoOperation"
    /\ start.registers.program_counter = \h02FE
    /\ registers.program_counter = \h0300
    /\ ret = 2

-----------------------------------------------------------------------------
(* SpecBRK: scenario S1 (LDA #$42; BRK at $0200), and BRK at $0300 from    *)
(* every combination of the flags, several register values and a memory    *)
(* with bytes on the stack.                                                *)

ProgramS1 == Image(\h0200, <<\hA9, \h42, \h00>>)
ProgramBRK == Image(\h0300, <<\h00>>) @@ Image(\h01FE, <<\h12, \h34>>)

InitBRK ==
    \/ InitWith({[RegistersNew EXCEPT !.program_counter = \h0200]},
                {StatusFlagsNew}, {ProgramS1}, MaxSteps)
    \/ InitWith({Regs(\h0300, sp, a, \h01, \h02) :
                    sp \in {\h00, \hFD, \hFF}, a \in {\h00, \h42}},
                AllStatusFlags, {ProgramBRK}, MaxSteps)

SpecBRK == InitBRK /\ [][Step]_vars

\* C17: BRK sets PC to 0 and leaves A, X, Y, SP, the flags and memory
\* unchanged; in S1 step 1 gives A = $42, PC = $0202, Z = 0, N = 0 and returns
\* 2 cycles, and step 2 gives PC = $0000.
C17_BreakFrame ==
    /\ (Stepped /\ DecodedInstruction = "Break") =>
          /\ registers = [pre.registers EXCEPT !.program_counter = 0]
          /\ status_flags = pre.status_flags
          /\ memory = pre.memory
    /\ (Ran(1) /\ start.memory = ProgramS1) =>
          /\ registers.accumulator = \h42
          /\ registers.program_counter = \h0202
          /\ ~status_flags.zero
          /\ ~status_flags.negative
          /\ ret = 2
    /\ (Ran(2) /\ start.memory = ProgramS1) =>
          registers.program_counter = \h0000

\* S1 after its second step: the BRK at $0202 has run
C17_ScenarioS1Done ==
    /\ Ran(2)
    /\ start.memory = ProgramS1
    /\ DecodedInstruction = "Break"
    /\ pre.registers.program_counter = \h0202
    /\ registers.accumulator = \h42
    /\ registers.program_counter = \h0000

-----------------------------------------------------------------------------
(* SpecReset: reset and reset_to called at any point of a run of up to     *)
(* MaxSteps steps of INX; PHA, from several register and flag values and   *)
(* reset vectors.                                                          *)

ResetVectors == {\h0000, \h0200, \h1234}
ResetAddresses == {\h0200, \hFFFF}
ResetAccumulators == {\h00, \h42}

ProgramReset(vector) ==
    Image(\h0200, <<\hE8, \h48>>)
        @@ Image(\hFFFC, <<vector % 256, vector \div 256>>)

InitReset ==
    InitWith({Regs(\h0200, sp, a, \h01, \h02) :
                 sp \in {\h10, \hFF}, a \in {\h00, \h42}},
             SomeFlags,
             {ProgramReset(vector) : vector \in ResetVectors},
             MaxSteps)

NextReset ==
    \/ Step
    \/ Reset
    \/ \E program_counter \in ResetAddresses, accumulator \in ResetAccumulators :
          ResetTo(program_counter, accumulator)

SpecReset == InitReset /\ [][NextReset]_vars

\* C18: reset() yields PC = mem[$FFFC] + 256 * mem[$FFFD], A = X = Y = 0,
\* SP = $FF and all eight flags clear with memory unchanged; reset_to(pc, a)
\* yields the same except PC = pc and A = a; applying either twice gives the
\* same state as applying it once.
C18_Reset ==
    /\ LastOp = "reset" =>
          /\ registers = Regs(MemRead(memory, \hFFFC) + 256 * MemRead(memory, \hFFFD),
                              \hFF, \h00, \h00, \h00)
          /\ PackedFlags(status_flags) = 0
          /\ memory = pre.memory
    /\ LastOp = "reset_to" =>
          /\ registers = Regs(LastArgs[1], \hFF, LastArgs[2], \h00, \h00)
          /\ PackedFlags(status_flags) = 0
          /\ memory = pre.memory
    /\ (LastOp \in {"reset", "reset_to"} /\ OpBefore = ops[Len(ops)]) =>
          Cur = pre

\* reset() after two steps that changed X and the stack
C18_ResetAfterSteps ==
    /\ LastOp = "reset"
    /\ Count("step") = 2
    /\ pre.registers.x = \h02
    /\ pre.registers.stack_pointer = \h0F
    /\ pre.status_flags.carry
    /\ registers.program_counter = \h1234
    /\ registers.stack_pointer = \hFF

-----------------------------------------------------------------------------
(* SpecCycles: every opcode byte, stepped from engines that differ in the  *)
(* stored cycle counter: the counter CPU::new leaves, and counters left    *)
(* behind by earlier steps.                                                *)

StoredCycles == {0, 7, 1000}

InitCycles ==
    /\ registers \in {Regs(\h0200, \hFF, a, x, \h01) : a \in {\h00, \h81}, x \in {\h00, \h01}}
    /\ status_flags \in SomeFlags
    /\ memory \in {Image(\h0200, <<opcode, b1, b2>>) :
                      opcode \in Byte, b1 \in OperandLow, b2 \in OperandHigh}
    /\ cycles \in StoredCycles
    /\ status = "running"
    /\ overflow_checks \in BOOLEAN
    /\ ret = -1
    /\ accesses = <<>>
    /\ start = Cur
    /\ pre = Cur
    /\ ops = <<>>
    /\ steps_left = MaxSteps

SpecCycles == InitCycles /\ [][Step]_vars

\* engine `other` ended its step as the last step of this run did
SameOutcome(other) ==
    /\ other.status = status
    /\ status = "running" =>
          /\ other.cycles = ret
          /\ other.registers = registers
          /\ other.status_flags = status_flags
          /\ other.memory = memory

\* C19: the value returned by step() does not accumulate across steps: an
\* engine that agrees with this one on registers, flags and memory but holds
\* another stored cycle counter returns the same value from step() and ends
\* in the same registers, flags and memory.
C19_StepCostIgnoresStoredCycles ==
    LastOp = "step" =>
        \A k \in StoredCycles : SameOutcome(step([pre EXCEPT !.cycles = k]))

\* a second JSR $0200, stepped with the 6 cycles of the first still stored,
\* in a run that started with 1000 stored cycles
C19_SecondStepAfterStoredCycles ==
    /\ Ran(2)
    /\ start.cycles = 1000
    /\ pre.cycles = 6
    /\ DecodedInstruction = "JumpSubroutine"
    /\ ret = 6

-----------------------------------------------------------------------------
(* SpecS2: scenario S2, the countdown loop LDX #$05; DEX; BNE -3 at $0300, *)
(* stepped MaxLoopSteps times; besides the scenario's own start (registers *)
(* zero, flags clear) the runs start from other A, Y and flag values.      *)

ProgramS2 == Image(\h0300, <<\hA2, \h05, \hCA, \hD0, \hFD>>)

InitS2 ==
    InitWith({Regs(\h0300, \hFF, a, \h00, y) : a \in {\h00, \h42}, y \in {\h00, \h02}},
             SomeFlags, {ProgramS2}, MaxLoopSteps)

\* a step() call is due: what is left of Step without the work of the step
StepDue ==
    /\ status = "running"
    /\ steps_left > 0
    /\ steps_left' = steps_left - 1

\* the embedder keeps stepping while a call is due; every Step is a StepDue
\* step and Step is the only action, so this is weak fairness of Step
SpecS2 == InitS2 /\ [][Step]_vars /\ WF_steps_left(StepDue)

\* the number of DEX instructions executed so far
DEXCount ==
    Cardinality({i \in DOMAIN ops : ops[i] = <<"step", <<"DecrementX">>>>})

\* the loop has counted down and fallen through
S2Done ==
    /\ registers.x = \h00
    /\ status_flags.zero
    /\ registers.program_counter = \h0305
    /\ DEXCount = 5

\* C20: S2 terminates: repeated stepping eventually reaches X = 0, Z = 1,
\* PC = $0305 with DEX executed exactly 5 times, and X is nonzero after every
\* DEX before the last.
C20_ScenarioS2Terminates ==
    /\ [](LastOp = "step" /\ LastArgs = <<"DecrementX">> /\ DEXCount < 5
            => registers.x # \h00)
    /\ <>S2Done

\* S2 from the scenario's own start, after its 11 steps
C20_ScenarioS2Done ==
    /\ S2Done
    /\ Ran(11)
    /\ start.registers = Regs(\h0300, \hFF, \h00, \h00, \h00)
    /\ start.status_flags = StatusFlagsNew

-----------------------------------------------------------------------------
(* SpecRead: every instruction that only reads its operand, in each of its *)
(* addressing modes, with index registers and zero-page pointers that do   *)
(* and do not carry the effective address into the next page.              *)

ReadInstructions ==
    {"LoadAccumulator", "LoadX", "LoadY", "AndWithAccumulator",
     "OrWithAccumulator", "ExclusiveOrWithAccumulator", "BitSet",
     "CompareWithAccumulator", "CompareWithX", "CompareWithY",
     "AddWithCarry", "SubtractWithCarry"}

\* the instruction at $0200 and the pointer word in page zero at b1
ProgramRead(opcode, b1, b2, word) ==
    MemWrite(MemWrite(Image(\h0200, <<opcode, b1, b2>>), b1, word % 256),
             (b1 + 1) % 256, word \div 256)

InitRead ==
    InitWith({Regs(\h0200, \hFF, \h00, x, y) :
                 x \in {\h00, \h01, \hFF}, y \in {\h00, \h01, \hFF}},
             {StatusFlagsNew},
             {ProgramRead(opcode, b1, b2, word) :
                 opcode \in {o \in Byte : OpCodesGet(o)[1] \in ReadInstructions},
                 b1 \in OperandLow, b2 \in {\h00, \h02, \hFF},
                 word \in {\h0300, \h03FF, \hFFFF}},
             MaxSteps)

SpecRead == InitRead /\ [][Step]_vars

\* the operand byte and the zero-page pointer word of the last step
Imm8 == MemRead(pre.memory, (pre.registers.program_counter + 1) % 65536)
PointerWord == MemRead(pre.memory, Imm8) + 256 * MemRead(pre.memory, (Imm8 + 1) % 256)

\* base + index, modulo 65536, lies in another page than base
CrossesPage(base, index) == ((base + index) % 65536) \div 256 # base \div 256

\* C21: a step of an instruction that only reads its operand returns 2
\* cycles in Immediate mode, 3 in ZeroPage, 4 in ZeroPageX, ZeroPageY and
\* Absolute, 6 in XIndirect, 4 in AbsoluteX and AbsoluteY plus 1 exactly when
\* imm16 + index (mod 65536) is in another page than imm16, and 5 in
\* IndirectY plus 1 exactly when the pointer word + Y is in another page than
\* the pointer word.
C21_ReadCycles ==
    (Stepped /\ DecodedInstruction \in ReadInstructions) =>
        ret = CASE DecodedMode = "Immediate" -> 2
                [] DecodedMode = "ZeroPage" -> 3
                [] DecodedMode \in {"ZeroPageX", "ZeroPageY", "Absolute"} -> 4
                [] DecodedMode = "XIndirect" -> 6
                [] DecodedMode = "AbsoluteX" ->
                      4 + BoolInt(CrossesPage(Imm16, pre.registers.x))
                [] DecodedMode = "AbsoluteY" ->
                      4 + BoolInt(CrossesPage(Imm16, pre.registers.y))
                [] DecodedMode = "IndirectY" ->
                      5 + BoolInt(CrossesPage(PointerWord, pre.registers.y))

\* an AbsoluteY read that wrapped past $FFFF and paid the extra cycle
C21_AbsoluteYCrossedPage ==
    /\ Stepped
    /\ DecodedInstruction = "LoadAccumulator"
    /\ DecodedMode = "AbsoluteY"
    /\ Imm16 + pre.registers.y > 65535
    /\ ret = 5

-----------------------------------------------------------------------------
(* SpecZeroPage: an indexed zero-page instruction of each access path      *)
(* (LDA zp,X and LDX zp,Y read; INC zp,X reads, modifies and writes; STA   *)
(* zp,X and STX zp,Y store), for every operand byte and every index.       *)

InitZeroPage ==
    \E index \in Byte :
        InitWith({Regs(\h0200, \hFF, \h77, index, index)},
                 {StatusFlagsNew},
                 {Image(\h0200, <<opcode, imm8>>) :
                     opcode \in {\hB5, \hB6, \hF6, \h95, \h96}, imm8 \in Byte},
                 1)

SpecZeroPage == InitZeroPage /\ [][Step]_vars

\* the accesses of the last step that are not fetches of its two instruction
\* bytes
DataAccesses ==
    SelectSeq(accesses, LAMBDA a :
        a[2] \notin {pre.registers.program_counter,
                     (pre.registers.program_counter + 1) % 65536})

\* C22: in ZeroPageX and ZeroPageY mode the effective address is
\* (imm8 + index) mod 256, in page zero, on the read path, the
\* read-modify-write path and the store path alike: every operand access of
\* the step, read or write, is made at that address and at no other.
C22_ZeroPageIndexedWraps ==
    (Stepped /\ DecodedMode \in {"ZeroPageX", "ZeroPageY"}) =>
        LET index == IF DecodedMode = "ZeroPageX" THEN pre.registers.x
                     ELSE pre.registers.y
            kinds == [i \in DOMAIN DataAccesses |-> DataAccesses[i][1]]
        IN  /\ \A i \in DOMAIN DataAccesses :
                  DataAccesses[i][2] = (Imm8 + index) % 256
            /\ kinds = CASE DecodedInstruction \in {"LoadAccumulator", "LoadX"} ->
                              <<"read">>
                         [] DecodedInstruction = "Increment" -> <<"read", "write">>
                         [] DecodedInstruction \in {"StoreAccumulator", "StoreX"} ->
                              <<"write">>

\* INC $FF,X with X = $02 read and wrote $0001
C22_IncrementWrappedToPageZero ==
    /\ Stepped
    /\ DecodedInstruction = "Increment"
    /\ Imm8 = \hFF
    /\ pre.registers.x = \h02
    /\ accesses[3] = <<"read", \h0001>>
    /\ accesses[Len(accesses)] = <<"write", \h0001>>
    /\ MemRead(memory, \h0001) = \h01

-----------------------------------------------------------------------------
(* SpecWrap: single steps whose 16-bit arithmetic passes $FFFF: an         *)
(* instruction at $FFFF, RTS and RTI popping $FFFF, JSR at $FFFE, and      *)
(* indexed reads, stores and read-modify-writes with base + index above    *)
(* $FFFF.                                                                  *)

WrapPrograms ==
    \* NOP, LDA #$01 and LDA $0001 at $FFFF
    {[pc |-> \hFFFF, sp |-> \hFF, index |-> \h00,
      mem |-> (\hFFFF :> opcode) @@ (\h0000 :> \h01)] :
        opcode \in {\hEA, \hA9, \hAD}}
    \cup
    \* RTS and RTI at $0200 with $FFFF on the stack
    {[pc |-> \h0200, sp |-> \hFD, index |-> \h00,
      mem |-> (\h0200 :> opcode) @@ (\h01FE :> \hFF) @@ (\h01FF :> \hFF)] :
        opcode \in {\h60, \h40}}
    \cup
    \* JSR $1234 at $FFFE, the stack filled with $AA
    {[pc |-> \hFFFE, sp |-> sp, index |-> \h00,
      mem |-> (\hFFFE :> \h20) @@ (\hFFFF :> \h34) @@ (\h0000 :> \h12)
                @@ (256 + sp :> \hAA) @@ (255 + sp :> \hAA)] :
        sp \in {\h80, \hFF}}
    \cup
    \* LDA, STA and INC abs,X, LDA and STA abs,Y at $0200, base + index > $FFFF
    {[pc |-> \h0200, sp |-> \hFF, index |-> index,
      mem |-> (\h0200 :> opcode) @@ (\h0201 :> lo) @@ (\h0202 :> \hFF)] :
        opcode \in {\hBD, \h9D, \hFE, \hB9, \h99},
        lo \in {\h80, \hFF}, index \in {\h80, \hFF}}
    \cup
    \* LDA and STA ($10),Y at $0200, pointer word + Y > $FFFF
    {[pc |-> \h0200, sp |-> \hFF, index |-> index,
      mem |-> (\h0200 :> opcode) @@ (\h0201 :> \h10)
                @@ (\h0010 :> lo) @@ (\h0011 :> \hFF)] :
        opcode \in {\hB1, \h91},
        lo \in {\h80, \hFF}, index \in {\h80, \hFF}}

InitWrap ==
    \E p \in WrapPrograms :
        InitWith({Regs(p.pc, p.sp, a, p.index, p.index) : a \in {\h00, \h42, \h81}},
                 {StatusFlagsNew}, {p.mem}, 1)

SpecWrap == InitWrap /\ [][Step]_vars

\* C23: 16-bit wraparound is never an error.  A step at PC = $FFFF fetches
\* its opcode there and goes on at $0000; RTS and RTI that pop $FFFF set PC
\* to $0000; JSR at $FFFE pushes the return address $0000 and jumps; an
\* AbsoluteX, AbsoluteY or IndirectY access with base + index above $FFFF is
\* made at (base + index) mod 65536.  In each case the step completes and
\* returns its cycles.
C23_WraparoundIsNotAnError ==
    LastOp = "step" =>
        /\ status = "running"
        /\ ret = cycles
        /\ pre.registers.program_counter = \hFFFF =>
              /\ accesses[1] = <<"read", \hFFFF>>
              /\ registers.program_counter =
                    CASE DecodedMode = "Implied" -> \h0000
                      [] DecodedMode = "Immediate" -> \h0001
                      [] DecodedMode = "Absolute" -> \h0002
        /\ DecodedInstruction \in {"ReturnFromSubroutine", "ReturnFromInterrupt"} =>
              registers.program_counter = \h0000
        /\ DecodedInstruction = "JumpSubroutine" =>
              /\ MemRead(memory, 256 + pre.registers.stack_pointer) = \h00
              /\ MemRead(memory, 255 + pre.registers.stack_pointer) = \h00
              /\ registers.program_counter = \h1234
        /\ DecodedMode \in {"AbsoluteX", "AbsoluteY"} =>
              accesses[Len(accesses)][2] =
                 (Imm16 + (IF DecodedMode = "AbsoluteX" THEN pre.registers.x
                           ELSE pre.registers.y)) % 65536
        /\ DecodedMode = "IndirectY" =>
              accesses[Len(accesses)][2] = (PointerWord + pre.registers.y) % 65536

-----------------------------------------------------------------------------
(* SpecRegisters: reset, reset_to and step in any order, on instructions   *)
(* that do arithmetic on a register, from registers at both ends of their  *)
(* range.                                                                  *)

InitRegisters ==
    InitWith({Regs(\h0200, sp, v, v, v) : sp \in {\h00, \hFF}, v \in {\h00, \hFF}},
             {StatusFlagsNew},
             {Image(\h0200, <<opcode, \h01>>) @@ Image(\hFFFC, <<\hFF, \hFF>>) :
                 opcode \in {\hE8, \hC8, \hCA, \h88, \h48, \h08, \h68, \h28, \h9A,
                             \hAA, \hBA, \h69, \hE9, \h0A, \h4A, \h2A, \hA9, \hD0}},
             MaxSteps)

SpecRegisters == InitRegisters /\ [][NextReset]_vars

\* the registers hold values of their widths
RegistersInRange ==
    /\ registers.accumulator \in Byte
    /\ registers.x \in Byte
    /\ registers.y \in Byte
    /\ registers.stack_pointer \in Byte
    /\ registers.program_counter \in Word

\* C24: in every state reachable by reset, reset_to and step, A, X, Y and SP
\* are in 0..255 and PC is in 0..65535, and the arithmetic on the registers
\* wraps modulo 256 instead of saturating: INX, INY, DEX, DEY move X and Y by
\* one modulo 256, a push moves SP down by one and a pull moves it up by one,
\* modulo 256.
C24_RegistersWrapInRange ==
    /\ RegistersInRange
    /\ Stepped =>
          /\ DecodedInstruction = "IncrementX" =>
                registers.x = (pre.registers.x + 1) % 256
          /\ DecodedInstruction = "IncrementY" =>
                registers.y = (pre.registers.y + 1) % 256
          /\ DecodedInstruction = "DecrementX" =>
                registers.x = (pre.registers.x - 1) % 256
          /\ DecodedInstruction = "DecrementY" =>
                registers.y = (pre.registers.y - 1) % 256
          /\ DecodedInstruction \in {"PushAccumulator", "PushProcessorStatus"} =>
                registers.stack_pointer = (pre.registers.stack_pointer - 1) % 256
          /\ DecodedInstruction \in {"PullAccumulator", "PullProcessorStatus"} =>
                registers.stack_pointer = (pre.registers.stack_pointer + 1) % 256

-----------------------------------------------------------------------------
(* SpecModify: INC, DEC, ASL, LSR and ROL in each of their addressing      *)
(* modes, with operands in page zero, on the instruction's own bytes, in   *)
(* the next page and past $FFFF.                                           *)

ModifyInstructions ==
    {"Increment", "Decrement", "ArithmeticShiftLeft", "LogicalShiftRight",
     "RotateLeft"}

InitModify ==
    InitWith({Regs(\h0200, \hFF, \h81, x, \h00) : x \in {\h00, \h01, \hFF}},
             SomeFlags,
             {Image(\h0200, <<opcode, b1, b2>>) :
                 opcode \in {o \in Byte : OpCodesGet(o)[1] \in ModifyInstructions},
                 b1 \in {\h00, \h01, \h80, \hFF}, b2 \in {\h00, \h02, \h03, \hFF}},
             MaxSteps)

SpecModify == InitModify /\ [][Step]_vars

\* the number of operand bytes that follow the opcode
OperandBytes ==
    CASE DecodedMode \in {"ZeroPage", "ZeroPageX"} -> 1
      [] DecodedMode \in {"Absolute", "AbsoluteX"} -> 2
      [] OTHER -> 0

\* the last step ran a read-modify-write instruction on a memory operand
ModifiedMemory ==
    /\ Stepped
    /\ DecodedInstruction \in ModifyInstructions
    /\ DecodedMode \in {"ZeroPage", "ZeroPageX", "Absolute", "AbsoluteX"}

\* C25: a step of INC, DEC, ASL, LSR or ROL on a memory operand (ZeroPage,
\* ZeroPageX, Absolute, AbsoluteX) makes exactly one memory write; the write
\* goes to the effective address the operand byte was read from; it comes
\* after every memory read of the step; and PC ends just past the operand
\* bytes.
C25_ModifyWritesOnceAfterReads ==
    ModifiedMemory =>
        /\ Cardinality({i \in DOMAIN accesses : accesses[i][1] = "write"}) = 1
        /\ accesses[Len(accesses)] = <<"write", EffectiveAddress(pre, DecodedMode)>>
        /\ accesses[OperandBytes + 2] = <<"read", EffectiveAddress(pre, DecodedMode)>>
        /\ registers.program_counter =
              pre.registers.program_counter + 1 + OperandBytes

\* INC $02FF,X with X = $01: three fetches, the operand read at $0300, the
\* two re-reads of the operand word, then the write at $0300
C25_IncrementAbsoluteX ==
    /\ ModifiedMemory
    /\ accesses = <<<<"read", \h0200>>, <<"read", \h0201>>, <<"read", \h0202>>,
                    <<"read", \h0300>>, <<"read", \h0201>>, <<"read", \h0202>>,
                    <<"write", \h0300>>>>
    /\ MemRead(memory, \h0300) = \h01
    /\ registers.program_counter = \h0203

\* C27: the cycles returned for INC, DEC, ASL, LSR and ROL depend only on
\* the addressing mode: Accumulator 2, ZeroPage 5, ZeroPageX 6, Absolute 6,
\* AbsoluteX 7, whether or not imm16 + X crosses a page; and the cycle
\* counter never goes below zero during the step: unless imm16 + X passes
\* $FFFF, the step returns even where a subtraction below zero would panic.
C27_ModifyCycles ==
    (LastOp = "step" /\ DecodedInstruction \in ModifyInstructions) =>
        /\ Stepped =>
              ret = CASE DecodedMode = "Accumulator" -> 2
                      [] DecodedMode = "ZeroPage" -> 5
                      [] DecodedMode \in {"ZeroPageX", "Absolute"} -> 6
                      [] DecodedMode = "AbsoluteX" -> 7
        /\ ~(DecodedMode = "AbsoluteX" /\ Imm16 + pre.registers.x > 65535) =>
              status = "running"

\* ASL $02FF,X with X = $01 crossed a page under overflow checks and
\* returned 7 cycles
C27_AbsoluteXCrossedPage ==
    /\ Stepped
    /\ overflow_checks
    /\ DecodedInstruction = "ArithmeticShiftLeft"
    /\ DecodedMode = "AbsoluteX"
    /\ CrossesPage(Imm16, pre.registers.x)
    /\ ret = 7

-----------------------------------------------------------------------------
(* SpecModes: one step under any decoder table: the opcode table is a      *)
(* collaborator of CPU::step, and a table other than the specified one can *)
(* pair an instruction with any addressing mode.                           *)

\* enum Mode
Modes ==
    {"Accumulator", "Immediate", "ZeroPage", "ZeroPageX", "ZeroPageY",
     "Relative", "Absolute", "AbsoluteX", "AbsoluteY", "Indirect", "XIndirect",
     "IndirectY", "Implied", "Unknown"}

StoreInstructions == {"StoreAccumulator", "StoreX", "StoreY"}

\* CPU::step with (instruction, mode) = decoded as the result of the decoder
step_decoded(c, decoded) ==
    Bind(read_byte_and_increment_pc(Set(c, [c EXCEPT !.cycles = 0])), LAMBDA f :
    Execute(f.c, decoded[1], decoded[2]))

\* cpu.step() when self.opcodes.get returns (instruction, mode)
StepDecoded(instruction, mode) ==
    /\ status = "running"
    /\ steps_left > 0
    /\ steps_left' = steps_left - 1
    /\ \E c \in {step_decoded(Cur, <<instruction, mode>>)} :
          Install(c, c.cycles, "step", <<instruction, mode>>)

InitModes ==
    InitWith({Regs(\h0200, \hFF, \h81, x, \h01) : x \in {\h00, \h01}},
             {StatusFlagsNew},
             {Image(\h0200, <<\h01, b1, \h02>>) : b1 \in {\h10, \hFF}},
             1)

NextModes ==
    \E instruction \in ReadInstructions \cup ModifyInstructions
                          \cup StoreInstructions \cup {"Jump"},
       mode \in Modes :
        StepDecoded(instruction, mode)

SpecModes == InitModes /\ [][NextModes]_vars

\* the operand path of the instruction has no arm for the mode
UnsupportedMode(instruction, mode) ==
    \/ /\ instruction \in ReadInstructions
       /\ mode \in {"Relative", "Indirect", "Unknown"}
    \/ /\ instruction \in ModifyInstructions
       /\ mode \notin {"Absolute", "AbsoluteX", "ZeroPage", "ZeroPageX", "Accumulator"}
    \/ /\ instruction \in StoreInstructions
       /\ mode \in {"Implied", "Immediate", "Relative", "Indirect", "Unknown"}
    \/ /\ instruction = "Jump"
       /\ mode \notin {"Absolute", "Indirect"}

\* C26: when the decoded addressing mode is not supported by the operand
\* path of the instruction (Relative, Indirect, Unknown on the read path;
\* anything but Absolute, AbsoluteX, ZeroPage, ZeroPageX, Accumulator on the
\* write-back path; Implied, Immediate, Relative, Indirect, Unknown on the
\* store path; anything but Absolute, Indirect for JMP), the step ends in a
\* fatal failure and returns no cycle count, with PC already past the opcode
\* byte.
C26_UnsupportedModeIsFatal ==
    (LastOp = "step" /\ UnsupportedMode(LastArgs[1], LastArgs[2])) =>
        /\ status = "panic"
        /\ ret = -1
        /\ registers.program_counter > pre.registers.program_counter

\* a store decoded with the Immediate mode failed right after the opcode fetch
C26_StoreImmediateFailed ==
    /\ LastOp = "step"
    /\ LastArgs = <<"StoreAccumulator", "Immediate">>
    /\ status = "panic"
    /\ registers.program_counter = \h0201
    /\ memory = pre.memory

-----------------------------------------------------------------------------
(* SpecMemory: one step of every opcode byte, with the stack pointer at    *)
(* both ends of the stack page, between resets.                            *)

InitMemory ==
    InitWith({Regs(\h0200, sp, \h81, index, index) :
                 sp \in {\h00, \h01, \hFF}, index \in {\h01, \hFF}},
             {StatusFlagsNew},
             {Image(\h0200, <<opcode, b1, \h02>>) @@ Image(\hFFFC, <<\h00, \h02>>) :
                 opcode \in Byte, b1 \in OperandLow},
             1)

SpecMemory == InitMemory /\ [][NextReset]_vars

\* the Memory::write calls of the last operation, in order
Writes == SelectSeq(accesses, LAMBDA access : access[1] = "write")

\* the addresses at which the last operation changed the memory
ChangedAddresses ==
    {address \in DOMAIN memory \cup DOMAIN pre.memory :
        MemRead(memory, address) # MemRead(pre.memory, address)}

\* the address a store instruction resolves, from the state before the step
StoreAddress ==
    CASE DecodedMode = "ZeroPage" -> Imm8
      [] DecodedMode = "ZeroPageX" -> (Imm8 + pre.registers.x) % 256
      [] DecodedMode = "ZeroPageY" -> (Imm8 + pre.registers.y) % 256
      [] DecodedMode = "Absolute" -> Imm16
      [] DecodedMode = "AbsoluteX" -> (Imm16 + pre.registers.x) % 65536
      [] DecodedMode = "AbsoluteY" -> (Imm16 + pre.registers.y) % 65536
      [] DecodedMode = "XIndirect" ->
            MemRead(pre.memory, (Imm8 + pre.registers.x) % 256)
                + 256 * MemRead(pre.memory, (Imm8 + pre.registers.x + 1) % 256)
      [] DecodedMode = "IndirectY" -> (PointerWord + pre.registers.y) % 65536

\* every access in the sequence is inside the stack page $0100..$01FF
InStackPage(stack_accesses) ==
    \A i \in DOMAIN stack_accesses : stack_accesses[i][2] \in 256..511

\* C28: memory is written only by STA/STX/STY (one byte, at the effective
\* address), by INC/DEC/ASL/LSR/ROL on a memory operand (one byte), by
\* PHA/PHP (one byte) and by JSR (two bytes); every stack write and stack
\* read is at an address in $0100..$01FF; every other instruction, and
\* reset() and reset_to(), leave all of memory unchanged.  Memory changes
\* nowhere but at the addresses written.
C28_MemoryWrittenOnlyByStoresAndPushes ==
    /\ (LastOp \in {"step", "reset", "reset_to"} /\ status = "running") =>
          ChangedAddresses \subseteq {Writes[i][2] : i \in DOMAIN Writes}
    /\ (LastOp \in {"reset", "reset_to"} /\ status = "running") =>
          Writes = <<>> /\ memory = pre.memory
    /\ Stepped =>
          CASE DecodedInstruction \in StoreInstructions ->
                  Writes = <<<<"write", StoreAddress>>>>
            [] DecodedInstruction \in ModifyInstructions /\ DecodedMode # "Accumulator" ->
                  Len(Writes) = 1
            [] DecodedInstruction \in {"PushAccumulator", "PushProcessorStatus"} ->
                  Len(Writes) = 1 /\ InStackPage(Writes)
            [] DecodedInstruction = "JumpSubroutine" ->
                  Len(Writes) = 2 /\ InStackPage(Writes)
            [] DecodedInstruction \in {"PullAccumulator", "PullProcessorStatus",
                                       "ReturnFromSubroutine", "ReturnFromInterrupt"} ->
                  /\ Writes = <<>> /\ memory = pre.memory
                  /\ Len(accesses) > 1
                  /\ InStackPage(SubSeq(accesses, 2, Len(accesses)))
            [] OTHER -> Writes = <<>> /\ memory = pre.memory

\* JSR with SP = $01 pushed its two bytes at $0101 and $0100
C28_JumpSubroutineFilledStack ==
    /\ Stepped
    /\ DecodedInstruction = "JumpSubroutine"
    /\ Writes = <<<<"write", \h0101>>, <<"write", \h0100>>>>
    /\ ChangedAddresses = {\h0101, \h0100}
    /\ registers.stack_pointer = \h00

=============================================================================
